---- MODULE Spec2Model ----
(***************************************************************************)
(* Sequential Thinking MCP server: the session manager                     *)
(* (ThinkingSessionManager, thinking-session.ts) as a state machine.       *)
(*                                                                         *)
(* Conventions.  An optional TypeScript value (x?: T) is a sequence of     *)
(* length at most one: None is undefined, Some(v) is the value v.  A text  *)
(* (a JavaScript string) is the non-empty sequence of its space-separated  *)
(* words, text.split(' '); the empty string is <<"">>.  uuidv4() returns   *)
(* the next element of an endless list of distinct strings that no caller  *)
(* can guess.  new Date() reads the variable now, a wall clock that the    *)
(* environment may set forward or backward between two calls.              *)
(***************************************************************************)
EXTENDS Integers, Sequences, FiniteSets, TLC

VARIABLES
    sessions,   \* ThinkingSessionManager.sessions: Map<string, ThinkingSession>
    uuidCount,  \* how many values uuidv4() has returned so far
    now,        \* the wall clock read by new Date()
    result,     \* the last call on the manager: its name, arguments and return value
    appendLog   \* history: per session, the addThought calls in call order

vars == <<sessions, uuidCount, now, result, appendLog>>

----------------------------------------------------------------------------
(* Bounds of the model *)

\* uuidv4() is called at most MaxUuid times (one per session id generated,
\* branch and thought): caps the number of sessions, branches and thoughts.
MaxUuid == 3

\* The wall clock takes the values 0..MaxTime.
MaxTime == 1

\* At most MaxSessions sessions are held.
MaxSessions == 2

\* uuidv4() is called at most MaxBranchUuid times in SpecBranches.
MaxBranchUuid == 6

\* The texts classified in SpecInfer have at most MaxWords words.
MaxWords == 2
MaxTimelineUuid == 4
MaxFrameUuid == 4

----------------------------------------------------------------------------
(* Optional values and JavaScript truthiness *)

None == <<>>

Some(v) == <<v>>

\* `x || d` and `if (x)` for an optional string: undefined and '' are falsy.
TruthyStr(o) == o # None /\ o[1] # ""

\* `x || d` and `if (x)` for an optional boolean.
TruthyBool(o) == o # None /\ o[1]

\* `text ? a : b` and `!text` for a (required) string held as its words.
TruthyText(text) == text # <<"">>

Min(a, b) == IF a <= b THEN a ELSE b

RECURSIVE Sum(_)
Sum(seq) == IF seq = <<>> THEN 0 ELSE Head(seq) + Sum(Tail(seq))

----------------------------------------------------------------------------
(* Values *)

DEFAULT_BRANCH_NAME == "main"

ThoughtTypes ==
    {"observation", "analysis", "hypothesis", "verification", "refinement",
     "conclusion", "question", "insight", "reflection"}

SessionStatuses == {"active", "paused", "completed", "abandoned"}

\* The n-th value returned by uuidv4().
Uuid(n) == "u" \o ToString(n)

\* An argument that names no session, and one that names no branch.
NoSuchSession == "nosession"

NoSuchBranch == "nobranch"

----------------------------------------------------------------------------
(* Text helpers *)

\* String.prototype.toLowerCase on one word of the vocabulary.
LowerWord(w) ==
    CASE w = "What" -> "what"
      [] w = "Therefore" -> "therefore"
      [] w = "Maybe" -> "maybe"
      [] OTHER -> w

\* toLowerCase of a text.
Lower(text) == [i \in 1..Len(text) |-> LowerWord(text[i])]

\* The words of the vocabulary that hold a keyword as a proper substring.
ProperSubstrings ==
    {<<"now?", "?">>, <<"latest", "test">>, <<"whatever", "what">>}

\* word.includes(kw) for a keyword without a space.
WordIncludes(w, kw) == w = kw \/ <<w, kw>> \in ProperSubstrings

\* lower.includes(kw) for a keyword without a space.
Includes(lower, kw) == \E i \in 1..Len(lower) : WordIncludes(lower[i], kw)

\* lower.includes(kw1 + ' ' + kw2): a word ending in kw1 followed by a word
\* starting with kw2 (the vocabulary has no word that ends in kw1 or starts
\* with kw2 other than the keyword itself).
Includes2(lower, kw1, kw2) ==
    \E i \in 1..(Len(lower) - 1) : lower[i] = kw1 /\ lower[i + 1] = kw2

\* lower.startsWith(kw) for a keyword without a space.
StartsWith(lower, kw) ==
    lower[1] = kw \/ (<<lower[1], kw>> \in ProperSubstrings /\ kw = "what")

\* Faulty inferThoughtType: the verification rule is tried before the
\* conclusion and hypothesis rules.
inferThoughtType_VerificationEarly(thought) ==
    LET lower == Lower(thought)
    IN  IF \/ Includes(lower, "?") \/ StartsWith(lower, "what")
           \/ StartsWith(lower, "how") \/ StartsWith(lower, "why")
        THEN "question"
        ELSE IF \/ Includes2(lower, "i", "notice") \/ Includes2(lower, "i", "see")
                \/ Includes(lower, "observe")
        THEN "observation"
        ELSE IF \/ Includes(lower, "verify") \/ Includes(lower, "test")
                \/ Includes(lower, "check")
        THEN "verification"
        ELSE IF \/ Includes(lower, "therefore") \/ Includes2(lower, "in", "conclusion")
                \/ Includes(lower, "finally")
        THEN "conclusion"
        ELSE IF \/ Includes(lower, "perhaps") \/ Includes(lower, "maybe")
                \/ Includes(lower, "hypothesis")
        THEN "hypothesis"
        ELSE IF \/ Includes(lower, "insight") \/ Includes(lower, "realize")
                \/ Includes(lower, "aha")
        THEN "insight"
        ELSE IF \/ Includes(lower, "refine") \/ Includes(lower, "improve")
                \/ Includes(lower, "better")
        THEN "refinement"
        ELSE IF Includes(lower, "reflect") \/ Includes2(lower, "thinking", "about")
        THEN "reflection"
        ELSE "analysis"

inferThoughtType(thought) ==
    LET lower == Lower(thought)
    IN  IF \/ Includes(lower, "?") \/ StartsWith(lower, "what")
           \/ StartsWith(lower, "how") \/ StartsWith(lower, "why")
        THEN "question"
        ELSE IF \/ Includes2(lower, "i", "notice") \/ Includes2(lower, "i", "see")
                \/ Includes(lower, "observe")
        THEN "observation"
        ELSE IF \/ Includes(lower, "therefore") \/ Includes2(lower, "in", "conclusion")
                \/ Includes(lower, "finally")
        THEN "conclusion"
        ELSE IF \/ Includes(lower, "perhaps") \/ Includes(lower, "maybe")
                \/ Includes(lower, "hypothesis")
        THEN "hypothesis"
        ELSE IF \/ Includes(lower, "verify") \/ Includes(lower, "test")
                \/ Includes(lower, "check")
        THEN "verification"
        ELSE IF \/ Includes(lower, "insight") \/ Includes(lower, "realize")
                \/ Includes(lower, "aha")
        THEN "insight"
        ELSE IF \/ Includes(lower, "refine") \/ Includes(lower, "improve")
                \/ Includes(lower, "better")
        THEN "refinement"
        ELSE IF Includes(lower, "reflect") \/ Includes2(lower, "thinking", "about")
        THEN "reflection"
        ELSE "analysis"

\* words.join(' ') + '...' keeps the words and lengthens the last one.
WithEllipsis(words) ==
    [i \in 1..Len(words) |-> IF i = Len(words) THEN words[i] \o "..." ELSE words[i]]

\* Faulty generateTitle: the ellipsis is appended whatever the length.
generateTitle_AlwaysEllipsis(problem) ==
    WithEllipsis(SubSeq(problem, 1, Min(6, Len(problem))))

generateTitle(problem) ==
    LET words == SubSeq(problem, 1, Min(6, Len(problem)))
    IN  IF Len(problem) > 6 THEN WithEllipsis(words) ELSE words

\* The number of thoughts of a type.
TypeCount(thoughts, type) ==
    LET IsType(t) == t.thoughtType = type
    IN  Len(SelectSeq(thoughts, IsType))

\* One part of the quick summary: `${n} ${plural}`, pushed when n is truthy.
SummaryPart(thoughts, type, plural) ==
    LET n == TypeCount(thoughts, type)
    IN  IF n # 0 THEN <<ToString(n) \o " " \o plural>> ELSE <<>>

\* Faulty generateQuickSummary: no placeholder, the parts are joined even
\* when there is none.
generateQuickSummary_NoPlaceholder(session) ==
    SummaryPart(session.thoughts, "observation", "observations")
    \o SummaryPart(session.thoughts, "hypothesis", "hypotheses")
    \o SummaryPart(session.thoughts, "insight", "insights")
    \o SummaryPart(session.thoughts, "conclusion", "conclusions")

\* The quick summary as its parts (joined by ', ' in the code).
generateQuickSummary(session) ==
    LET parts == SummaryPart(session.thoughts, "observation", "observations")
                 \o SummaryPart(session.thoughts, "hypothesis", "hypotheses")
                 \o SummaryPart(session.thoughts, "insight", "insights")
                 \o SummaryPart(session.thoughts, "conclusion", "conclusions")
    IN  IF Len(parts) > 0 THEN parts ELSE <<"Starting analysis...">>

----------------------------------------------------------------------------
(* The session manager's methods, as operators on one session *)

\* session.branches.find(b => b.id === id)
BranchById(session, id) ==
    LET HasId(b) == b.id = id
        hits == SelectSeq(session.branches, HasId)
    IN  IF hits = <<>> THEN None ELSE Some(hits[1])

\* session.branches.find(b => b.name === name)
BranchByName(session, name) ==
    LET HasName(b) == b.name = name
        hits == SelectSeq(session.branches, HasName)
    IN  IF hits = <<>> THEN None ELSE Some(hits[1])

\* session.thoughts.filter(t => t.branchId === branchId)
BranchThoughts(session, branchId) ==
    LET OnBranch(t) == t.branchId = branchId
    IN  SelectSeq(session.thoughts, OnBranch)

\* activeBranch?.name || DEFAULT_BRANCH_NAME
BranchNameOrDefault(session, id) ==
    LET b == BranchById(session, id)
    IN  IF b # None /\ b[1].name # "" THEN b[1].name ELSE DEFAULT_BRANCH_NAME

\* Faulty NewSession: the session starts paused.
NewSession_Paused(id, problem, branchUuid, t) ==
    [id |-> id,
     title |-> IF TruthyText(problem) THEN generateTitle(problem)
               ELSE <<"New", "Thinking", "Session">>,
     problem |-> problem,
     thoughts |-> <<>>,
     branches |-> <<[id |-> branchUuid, name |-> DEFAULT_BRANCH_NAME,
                     parentBranchId |-> None, branchFromStepId |-> None,
                     createdAt |-> t,
                     description |-> Some("Main thinking branch")]>>,
     activeBranchId |-> branchUuid,
     createdAt |-> t, updatedAt |-> t, status |-> "paused"]

\* The session getOrCreateSession builds for an id it does not hold; branchUuid
\* is the uuid drawn for the main branch, t the clock.
NewSession(id, problem, branchUuid, t) ==
    LET mainBranch == [id |-> branchUuid, name |-> DEFAULT_BRANCH_NAME,
                       parentBranchId |-> None, branchFromStepId |-> None,
                       createdAt |-> t,
                       description |-> Some("Main thinking branch")]
    IN  [id |-> id,
         title |-> IF TruthyText(problem) THEN generateTitle(problem)
                   ELSE <<"New", "Thinking", "Session">>,
         problem |-> problem,
         thoughts |-> <<>>,
         branches |-> <<mainBranch>>,
         activeBranchId |-> mainBranch.id,
         createdAt |-> t, updatedAt |-> t, status |-> "active"]

\* Faulty NewBranch: the source thought is looked for on every branch.
NewBranch_AnyBranchStep(session, name, branchFromStep, branchUuid, t) ==
    LET parentBranch == BranchById(session, session.activeBranchId)
        IsSource(th) == /\ branchFromStep # None
                        /\ th.stepNumber = branchFromStep[1]
        sources == SelectSeq(session.thoughts, IsSource)
    IN  [id |-> branchUuid, name |-> name,
         parentBranchId |-> IF parentBranch = None THEN None
                            ELSE Some(parentBranch[1].id),
         branchFromStepId |-> IF sources = <<>> THEN None ELSE Some(sources[1].id),
         createdAt |-> t, description |-> None]

\* The branch createBranch builds; branchUuid is the uuid drawn for it.
NewBranch(session, name, branchFromStep, branchUuid, t) ==
    LET parentBranch == BranchById(session, session.activeBranchId)
        IsSource(th) == /\ branchFromStep # None
                        /\ th.stepNumber = branchFromStep[1]
                        /\ th.branchId = session.activeBranchId
        sources == SelectSeq(session.thoughts, IsSource)
    IN  [id |-> branchUuid, name |-> name,
         parentBranchId |-> IF parentBranch = None THEN None
                            ELSE Some(parentBranch[1].id),
         branchFromStepId |-> IF sources = <<>> THEN None ELSE Some(sources[1].id),
         createdAt |-> t, description |-> None]

\* Faulty createBranch: the new branch takes the place of the latest one.
createBranch_ReplacesLast(session, name, branchFromStep, branchUuid, t) ==
    [session EXCEPT !.branches =
        Append(SubSeq(@, 1, Len(@) - 1),
               NewBranch(session, name, branchFromStep, branchUuid, t))]

\* createBranch: the session with the new branch pushed.
createBranch(session, name, branchFromStep, branchUuid, t) ==
    [session EXCEPT !.branches =
        Append(@, NewBranch(session, name, branchFromStep, branchUuid, t))]

\* Faulty ResolveBranch: a given branchId wins over the branch just created.
ResolveBranch_BranchIdWins(session, input, branchUuid, t) ==
    LET routed == IF TruthyStr(input.branchId) THEN input.branchId[1]
                  ELSE IF TruthyStr(input.newBranchName) THEN branchUuid
                  ELSE session.activeBranchId
    IN  IF TruthyStr(input.newBranchName)
        THEN [session |-> [createBranch(session, input.newBranchName[1],
                                        input.branchFromStep, branchUuid, t)
                           EXCEPT !.activeBranchId = branchUuid],
              activeBranchId |-> routed]
        ELSE [session |-> session, activeBranchId |-> routed]

\* Faulty ResolveBranch: a given branchId becomes the session's active branch.
ResolveBranch_SwitchesToBranchId(session, input, branchUuid, t) ==
    IF TruthyStr(input.newBranchName)
    THEN [session |-> [createBranch(session, input.newBranchName[1],
                                    input.branchFromStep, branchUuid, t)
                       EXCEPT !.activeBranchId = branchUuid],
          activeBranchId |-> branchUuid]
    ELSE IF TruthyStr(input.branchId)
    THEN [session |-> [session EXCEPT !.activeBranchId = input.branchId[1]],
          activeBranchId |-> input.branchId[1]]
    ELSE [session |-> session, activeBranchId |-> session.activeBranchId]

\* addThought, lines 37-42: the session after the branch directives, and the
\* branch id the thought is routed to.
ResolveBranch(session, input, branchUuid, t) ==
    IF TruthyStr(input.newBranchName)
    THEN [session |-> [createBranch(session, input.newBranchName[1],
                                    input.branchFromStep, branchUuid, t)
                       EXCEPT !.activeBranchId = branchUuid],
          activeBranchId |-> branchUuid]
    ELSE [session |-> session,
          activeBranchId |-> IF TruthyStr(input.branchId) THEN input.branchId[1]
                             ELSE session.activeBranchId]

\* Faulty NextStepNumber: numbers the thoughts of the whole session.
NextStepNumber_Global(session, activeBranchId) == Len(session.thoughts) + 1

\* Faulty NextStepNumber: numbers from the session's active branch, not
\* from the branch the thought is routed to.
NextStepNumber_ActiveBranch(session, activeBranchId) ==
    Len(BranchThoughts(session, session.activeBranchId)) + 1

\* addThought, lines 43-44.
NextStepNumber(session, activeBranchId) ==
    Len(BranchThoughts(session, activeBranchId)) + 1

\* Faulty NewThought: the type is inferred even when the caller gives one.
NewThought_AlwaysInfers(session, input, activeBranchId, thoughtUuid, t) ==
    [id |-> thoughtUuid,
     stepNumber |-> NextStepNumber(session, activeBranchId),
     thought |-> input.thought,
     thoughtType |-> inferThoughtType(input.thought),
     isRevision |-> TruthyBool(input.isRevision),
     revisesStep |-> input.revisesStep,
     branchId |-> activeBranchId,
     branchFromStep |-> input.branchFromStep,
     confidence |-> input.confidence,
     tags |-> input.tags,
     timestamp |-> t]

\* addThought, lines 45-51: the thought record.
NewThought(session, input, activeBranchId, thoughtUuid, t) ==
    [id |-> thoughtUuid,
     stepNumber |-> NextStepNumber(session, activeBranchId),
     thought |-> input.thought,
     thoughtType |-> IF TruthyStr(input.thoughtType) THEN input.thoughtType[1]
                     ELSE inferThoughtType(input.thought),
     isRevision |-> TruthyBool(input.isRevision),
     revisesStep |-> input.revisesStep,
     branchId |-> activeBranchId,
     branchFromStep |-> input.branchFromStep,
     confidence |-> input.confidence,
     tags |-> input.tags,
     timestamp |-> t]

\* Faulty PushThought: unshift instead of push.
PushThought_Unshift(thoughts, thoughtStep) == <<thoughtStep>> \o thoughts

\* Faulty PushThought: the thought overwrites the latest one (a lost append).
PushThought_ReplacesLast(thoughts, thoughtStep) ==
    IF thoughts = <<>> THEN <<thoughtStep>>
    ELSE Append(SubSeq(thoughts, 1, Len(thoughts) - 1), thoughtStep)

\* addThought, line 52: session.thoughts.push(thoughtStep)
PushThought(thoughts, thoughtStep) == Append(thoughts, thoughtStep)

\* addThought, lines 54-57: the first thought fills an empty problem.
Backfill(session, input) ==
    IF Len(session.thoughts) = 1 /\ ~TruthyText(session.problem)
    THEN [session EXCEPT !.problem = input.thought,
                         !.title = generateTitle(input.thought)]
    ELSE session

\* Faulty getProgress: a conclusion ends the thinking whatever the status.
getProgress_ConclusionEnds(session) ==
    [sessionId |-> session.id,
     totalSteps |-> Len(session.thoughts),
     currentStep |-> Len(BranchThoughts(session, session.activeBranchId)),
     branches |-> Len(session.branches),
     activeBranch |-> BranchNameOrDefault(session, session.activeBranchId),
     hasMoreThoughts |-> TypeCount(session.thoughts, "conclusion") = 0,
     summary |-> generateQuickSummary(session)]

getProgress(session) ==
    [sessionId |-> session.id,
     totalSteps |-> Len(session.thoughts),
     currentStep |-> Len(BranchThoughts(session, session.activeBranchId)),
     branches |-> Len(session.branches),
     activeBranch |-> BranchNameOrDefault(session, session.activeBranchId),
     hasMoreThoughts |-> \/ TypeCount(session.thoughts, "conclusion") = 0
                         \/ session.status = "active",
     summary |-> generateQuickSummary(session)]

\* addThought on the session getOrCreateSession returned: the session after the
\* call and the value returned.  branchUuid is the next uuid, drawn only when a
\* branch is created; thoughtUuid is the uuid drawn for the thought.
addThought(session0, input, branchUuid, thoughtUuid, t) ==
    LET resolved == ResolveBranch(session0, input, branchUuid, t)
        thoughtStep == NewThought(resolved.session, input, resolved.activeBranchId,
                                  thoughtUuid, t)
        pushed == [resolved.session EXCEPT
                       !.thoughts = PushThought(@, thoughtStep),
                       !.updatedAt = t]
        session == Backfill(pushed, input)
    IN  [session |-> session,
         ret |-> [sessionId |-> session.id,
                  stepNumber |-> thoughtStep.stepNumber,
                  totalSteps |-> Len(session.thoughts),
                  activeBranch |-> BranchNameOrDefault(session, resolved.activeBranchId),
                  branchCount |-> Len(session.branches),
                  thoughtRecorded |-> thoughtStep.thought,
                  thoughtType |-> thoughtStep.thoughtType,
                  isRevision |-> thoughtStep.isRevision,
                  nextThoughtNeeded |-> input.nextThoughtNeeded,
                  progress |-> getProgress(session)]]

\* Faulty Insert: a thought is put before the thoughts of its own timestamp
\* (an unstable sort).
RECURSIVE Insert_BeforeEqual(_, _)
Insert_BeforeEqual(sorted, th) ==
    IF sorted = <<>> THEN <<th>>
    ELSE IF th.timestamp <= sorted[Len(sorted)].timestamp
         THEN Append(Insert_BeforeEqual(SubSeq(sorted, 1, Len(sorted) - 1), th),
                     sorted[Len(sorted)])
         ELSE Append(sorted, th)

\* Array.prototype.sort((a, b) => a.timestamp - b.timestamp): stable, and in
\* place.  Insert puts a thought behind every thought that is not later.
RECURSIVE Insert(_, _)
Insert(sorted, th) ==
    IF sorted = <<>> THEN <<th>>
    ELSE IF th.timestamp < sorted[Len(sorted)].timestamp
         THEN Append(Insert(SubSeq(sorted, 1, Len(sorted) - 1), th),
                     sorted[Len(sorted)])
         ELSE Append(sorted, th)

RECURSIVE SortByTimestamp(_)
SortByTimestamp(thoughts) ==
    IF thoughts = <<>> THEN <<>>
    ELSE Insert(SortByTimestamp(SubSeq(thoughts, 1, Len(thoughts) - 1)),
                thoughts[Len(thoughts)])

\* Faulty ThoughtsAfterSummary: the array is reversed in place (newest first
\* on the first call), not sorted.
ThoughtsAfterSummary_Reversed(thoughts) ==
    [i \in 1..Len(thoughts) |-> thoughts[Len(thoughts) + 1 - i]]

\* getSummary, line 110: what session.thoughts holds after the timeline is built.
ThoughtsAfterSummary(thoughts) == SortByTimestamp(thoughts)

\* Faulty BranchSummary: every branch is given the session's thought count.
BranchSummary_CountsAll(session, branch) ==
    LET branchThoughts == session.thoughts
    IN  [id |-> branch.id, name |-> branch.name,
         stepCount |-> Len(branchThoughts),
         thoughtTypes |-> [ty \in ThoughtTypes |-> TypeCount(branchThoughts, ty)]]

\* getSummary, lines 100-108: one entry of the branch breakdown.
BranchSummary(session, branch) ==
    LET branchThoughts == BranchThoughts(session, branch.id)
    IN  [id |-> branch.id, name |-> branch.name,
         stepCount |-> Len(branchThoughts),
         thoughtTypes |-> [ty \in ThoughtTypes |-> TypeCount(branchThoughts, ty)]]

\* getSummary, lines 111-115: one timeline entry.
TimelineEntry(session, th) ==
    [stepNumber |-> th.stepNumber, thought |-> th.thought, type |-> th.thoughtType,
     branchName |-> BranchNameOrDefault(session, th.branchId),
     isRevision |-> th.isRevision]

\* The texts of the thoughts of a type, in the order of the array.
TextsOfType(thoughts, type) ==
    LET IsType(t) == t.thoughtType = type
        hits == SelectSeq(thoughts, IsType)
    IN  [i \in 1..Len(hits) |-> hits[i].thought]

\* getSummary on a held session: the session after the call (its thoughts array
\* sorted in place) and the value returned.
getSummary(session0) ==
    LET branchSummaries == [i \in 1..Len(session0.branches) |->
                               BranchSummary(session0, session0.branches[i])]
        session == [session0 EXCEPT !.thoughts = ThoughtsAfterSummary(@)]
    IN  [session |-> session,
         ret |-> [sessionId |-> session.id, title |-> session.title,
                  problem |-> session.problem,
                  totalSteps |-> Len(session.thoughts),
                  branches |-> branchSummaries,
                  keyInsights |-> TextsOfType(session.thoughts, "insight"),
                  conclusions |-> TextsOfType(session.thoughts, "conclusion"),
                  status |-> session.status,
                  timeline |-> [i \in 1..Len(session.thoughts) |->
                                   TimelineEntry(session, session.thoughts[i])]]]

\* Faulty updateSessionStatus: a completed session stays completed.
updateSessionStatus_CompletedIsFinal(session, status, t) ==
    IF session.status = "completed" THEN session
    ELSE [session EXCEPT !.status = status, !.updatedAt = t]

\* updateSessionStatus on a held session.
updateSessionStatus(session, status, t) ==
    [session EXCEPT !.status = status, !.updatedAt = t]

\* Faulty switchBranch: updatedAt is touched before the branch is looked up.
switchBranch_TouchesFirst(session, branchName, t) ==
    LET branch == BranchByName(session, branchName)
    IN  IF branch = None
        THEN [session |-> [session EXCEPT !.updatedAt = t], ret |-> FALSE]
        ELSE [session |-> [session EXCEPT !.activeBranchId = branch[1].id,
                                          !.updatedAt = t],
              ret |-> TRUE]

\* Faulty switchBranch: reports success without activating the branch.
switchBranch_KeepsActive(session, branchName, t) ==
    LET branch == BranchByName(session, branchName)
    IN  IF branch = None
        THEN [session |-> session, ret |-> FALSE]
        ELSE [session |-> [session EXCEPT !.updatedAt = t], ret |-> TRUE]

\* switchBranch on a held session: the session after the call and the value
\* returned.
switchBranch(session, branchName, t) ==
    LET branch == BranchByName(session, branchName)
    IN  IF branch = None
        THEN [session |-> session, ret |-> FALSE]
        ELSE [session |-> [session EXCEPT !.activeBranchId = branch[1].id,
                                          !.updatedAt = t],
              ret |-> TRUE]

\* Faulty listSessions: stepCount is the number of branches.
listSessions_CountsBranches(held) ==
    [i \in 1..Len(held) |->
        [id |-> held[i].id, title |-> held[i].title, status |-> held[i].status,
         stepCount |-> Len(held[i].branches)]]

\* listSessions: one entry per value of the map, in insertion order.
listSessions(held) ==
    [i \in 1..Len(held) |->
        [id |-> held[i].id, title |-> held[i].title, status |-> held[i].status,
         stepCount |-> Len(held[i].thoughts)]]

----------------------------------------------------------------------------
(* The map of sessions: a sequence in insertion order *)

\* sessions.has(id)
Has(id) == \E i \in 1..Len(sessions) : sessions[i].id = id

\* Faulty IndexOf: every id is looked up in the session created first.
IndexOf_First(id) == 1

\* The position of a held id.
IndexOf(id) == CHOOSE i \in 1..Len(sessions) : sessions[i].id = id

\* sessions.get(id) for a held id.
Get(id) == sessions[IndexOf(id)]

HeldIds == {sessions[i].id : i \in 1..Len(sessions)}

\* Every branch id of every held session.
AllBranchIds ==
    UNION {{sessions[i].branches[j].id : j \in 1..Len(sessions[i].branches)} :
           i \in 1..Len(sessions)}

----------------------------------------------------------------------------
(* The state machine *)

NoCall == [op |-> "none"]

Init ==
    /\ sessions = <<>>
    /\ uuidCount = 0
    /\ now = 0
    /\ result = NoCall
    /\ appendLog = <<>>

\* Faulty getOrCreateSession: a new session replaces the map.
getOrCreateSession_Replaces(sessionId, problem, n, t) ==
    IF TruthyStr(sessionId) /\ Has(sessionId[1])
    THEN [sessions |-> sessions, index |-> IndexOf(sessionId[1]), drawn |-> 0]
    ELSE LET drawnId == IF TruthyStr(sessionId) THEN 0 ELSE 1
             id == IF TruthyStr(sessionId) THEN sessionId[1] ELSE Uuid(n + 1)
         IN  [sessions |-> <<NewSession(id, problem, Uuid(n + drawnId + 1), t)>>,
              index |-> 1,
              drawn |-> drawnId + 1]

\* getOrCreateSession(sessionId, problem) with uuidCount = n: the map after the
\* call, the position of the session returned and the uuids drawn.
getOrCreateSession(sessionId, problem, n, t) ==
    IF TruthyStr(sessionId) /\ Has(sessionId[1])
    THEN [sessions |-> sessions, index |-> IndexOf(sessionId[1]), drawn |-> 0]
    ELSE LET drawnId == IF TruthyStr(sessionId) THEN 0 ELSE 1
             id == IF TruthyStr(sessionId) THEN sessionId[1] ELSE Uuid(n + 1)
         IN  [sessions |-> Append(sessions,
                                  NewSession(id, problem, Uuid(n + drawnId + 1), t)),
              index |-> Len(sessions) + 1,
              drawn |-> drawnId + 1]

\* The uuids one addThought call draws.
UuidsDrawn(input) ==
    (IF TruthyStr(input.sessionId) /\ Has(input.sessionId[1]) THEN 0
     ELSE IF TruthyStr(input.sessionId) THEN 1 ELSE 2)
    + (IF TruthyStr(input.newBranchName) THEN 1 ELSE 0)
    + 1

\* sessionManager.addThought(input), for an input of the set inputs, while no
\* more than maxUuid uuids are drawn.
AddThoughtUpTo(inputs, maxUuid) ==
    \E input \in inputs :
        LET creates == ~(TruthyStr(input.sessionId) /\ Has(input.sessionId[1]))
            got == getOrCreateSession(input.sessionId, input.thought, uuidCount, now)
            n == uuidCount + got.drawn
            branches == IF TruthyStr(input.newBranchName) THEN 1 ELSE 0
            done == addThought(got.sessions[got.index], input, Uuid(n + 1),
                               Uuid(n + branches + 1), now)
        IN  /\ uuidCount + UuidsDrawn(input) <= maxUuid
            /\ creates => Len(sessions) < MaxSessions
            /\ sessions' = [got.sessions EXCEPT ![got.index] = done.session]
            /\ uuidCount' = n + branches + 1
            /\ result' = [op |-> "addThought", sid |-> done.session.id,
                          input |-> input, ret |-> done.ret]
            /\ appendLog' =
                   LET log == IF creates THEN Append(appendLog, <<>>) ELSE appendLog
                   IN  [log EXCEPT ![got.index] =
                           Append(@, [id |-> Uuid(n + branches + 1),
                                      newBranch |-> TruthyStr(input.newBranchName),
                                      routedTo |->
                                          IF TruthyStr(input.newBranchName)
                                          THEN Uuid(n + 1)
                                          ELSE IF TruthyStr(input.branchId)
                                          THEN input.branchId[1]
                                          ELSE got.sessions[got.index].activeBranchId])]
            /\ UNCHANGED now

\* sessionManager.addThought(input), for an input of the set inputs
AddThought(inputs) == AddThoughtUpTo(inputs, MaxUuid)

\* sessionManager.switchBranch(sessionId, branchName)
SwitchBranch(args) ==
    \E sid \in {a[1] : a \in args}, branchName \in {a[2] : a \in args} :
        /\ <<sid, branchName>> \in args
        /\ IF Has(sid)
           THEN LET done == switchBranch(Get(sid), branchName, now)
                IN  /\ sessions' = [sessions EXCEPT ![IndexOf(sid)] = done.session]
                    /\ result' = [op |-> "switchBranch", sid |-> sid,
                                  branchName |-> branchName, ret |-> done.ret]
           ELSE /\ sessions' = sessions
                /\ result' = [op |-> "switchBranch", sid |-> sid,
                              branchName |-> branchName, ret |-> FALSE]
        /\ UNCHANGED <<uuidCount, now, appendLog>>

\* Faulty UpdateSessionStatus: reports success for an id that is not held.
UpdateSessionStatus_ReportsSuccess(args) ==
    \E sid \in {a[1] : a \in args}, status \in {a[2] : a \in args} :
        /\ <<sid, status>> \in args
        /\ sessions' = IF Has(sid)
                       THEN [sessions EXCEPT ![IndexOf(sid)] =
                                updateSessionStatus(@, status, now)]
                       ELSE sessions
        /\ result' = [op |-> "updateSessionStatus", sid |-> sid,
                      status |-> status, ret |-> TRUE]
        /\ UNCHANGED <<uuidCount, now, appendLog>>

\* sessionManager.updateSessionStatus(sessionId, status)
UpdateSessionStatus(args) ==
    \E sid \in {a[1] : a \in args}, status \in {a[2] : a \in args} :
        /\ <<sid, status>> \in args
        /\ IF Has(sid)
           THEN /\ sessions' = [sessions EXCEPT ![IndexOf(sid)] =
                                    updateSessionStatus(@, status, now)]
                /\ result' = [op |-> "updateSessionStatus", sid |-> sid,
                              status |-> status, ret |-> TRUE]
           ELSE /\ sessions' = sessions
                /\ result' = [op |-> "updateSessionStatus", sid |-> sid,
                              status |-> status, ret |-> FALSE]
        /\ UNCHANGED <<uuidCount, now, appendLog>>

\* sessionManager.getSummary(sessionId); a null return is None.
GetSummary(sids) ==
    \E sid \in sids :
        /\ IF Has(sid)
           THEN LET done == getSummary(Get(sid))
                IN  /\ sessions' = [sessions EXCEPT ![IndexOf(sid)] = done.session]
                    /\ result' = [op |-> "getSummary", sid |-> sid,
                                  ret |-> Some(done.ret)]
           ELSE /\ sessions' = sessions
                /\ result' = [op |-> "getSummary", sid |-> sid, ret |-> None]
        /\ UNCHANGED <<uuidCount, now, appendLog>>

\* sessionManager.getSession(sessionId) followed by getProgress on the session
\* it returned.
GetProgress ==
    \E sid \in HeldIds :
        /\ result' = [op |-> "getProgress", sid |-> sid, ret |-> getProgress(Get(sid))]
        /\ UNCHANGED <<sessions, uuidCount, now, appendLog>>

\* sessionManager.listSessions()
ListSessions ==
    /\ result' = [op |-> "listSessions", ret |-> listSessions(sessions)]
    /\ UNCHANGED <<sessions, uuidCount, now, appendLog>>

\* Time passes between two calls.
ClockForward ==
    /\ now < MaxTime
    /\ now' = now + 1
    /\ UNCHANGED <<sessions, uuidCount, result, appendLog>>

\* The wall clock is set back between two calls (a clock adjustment).
ClockBackward ==
    /\ now > 0
    /\ now' = now - 1
    /\ UNCHANGED <<sessions, uuidCount, result, appendLog>>

----------------------------------------------------------------------------
(* Spec: one client working on the session "s1", with every combination of   *)
(* the branch directives                                                     *)

BaseInput(sid, thought) ==
    [sessionId |-> sid, thought |-> thought, thoughtType |-> None,
     isRevision |-> None, revisesStep |-> None, branchId |-> None,
     branchFromStep |-> None, newBranchName |-> None, confidence |-> None,
     tags |-> None, nextThoughtNeeded |-> TRUE]

\* sessionId of the calls other than addThought (a required string).
SessionIdArgs == {"s1", NoSuchSession}

BranchIdOpts == {None, Some(NoSuchBranch)} \cup {Some(id) : id \in AllBranchIds}

NewBranchNameOpts == {None, Some("alt")}

\* switchBranch(sessionId, branchName): every name on the session, one call on
\* a session that is not held.
SwitchBranchArgs ==
    {<<"s1", name>> : name \in {DEFAULT_BRANCH_NAME, "alt", NoSuchBranch}}
    \cup {<<NoSuchSession, DEFAULT_BRANCH_NAME>>}

\* updateSessionStatus(sessionId, status)
UpdateSessionStatusArgs ==
    {<<"s1", status>> : status \in {"active", "completed"}}
    \cup {<<NoSuchSession, "completed">>}

\* The AddThoughtInput values tried: every combination of branchId and
\* newBranchName, a new branch forked from step 1, and an empty newBranchName.
AddThoughtInputs ==
    {[BaseInput(Some("s1"), <<"plain", "step">>) EXCEPT
          !.branchId = b, !.newBranchName = n] :
        b \in BranchIdOpts, n \in NewBranchNameOpts}
    \cup
    {[BaseInput(Some("s1"), <<"plain", "step">>) EXCEPT
          !.newBranchName = Some("alt"), !.branchFromStep = Some(1)],
     [BaseInput(Some("s1"), <<"plain", "step">>) EXCEPT
          !.newBranchName = Some("")]}

Next ==
    \/ AddThought(AddThoughtInputs)
    \/ SwitchBranch(SwitchBranchArgs)
    \/ UpdateSessionStatus(UpdateSessionStatusArgs)
    \/ GetSummary(SessionIdArgs)
    \/ GetProgress
    \/ ListSessions
    \/ ClockForward
    \/ ClockBackward

Spec == Init /\ [][Next]_vars

----------------------------------------------------------------------------
(* SpecServer: the tools of the stdio server, which call the session manager *)

\* The complete_thinking_session tool of the stdio server: the arguments are
\* cast to { sessionId }, so a finalConclusion the caller sends is not read.
CompleteThinkingSession(args) ==
    \E sid \in {a[1] : a \in args}, finalConclusion \in {a[2] : a \in args} :
        /\ <<sid, finalConclusion>> \in args
        /\ IF Has(sid)
           THEN /\ sessions' = [sessions EXCEPT ![IndexOf(sid)] =
                                    updateSessionStatus(@, "completed", now)]
                /\ result' = [op |-> "complete_thinking_session", sid |-> sid,
                              finalConclusion |-> finalConclusion,
                              ret |-> "Completed"]
           ELSE /\ sessions' = sessions
                /\ result' = [op |-> "complete_thinking_session", sid |-> sid,
                              finalConclusion |-> finalConclusion,
                              ret |-> "Failed"]
        /\ UNCHANGED <<uuidCount, now, appendLog>>

\* What SequentialThinkingInputSchema.parse hands to addThought: the schema has
\* no branchId, and isRevision defaults to false.
ServerInputs ==
    {[BaseInput(Some("s1"), <<"plain", "step">>) EXCEPT
          !.isRevision = Some(FALSE), !.newBranchName = n] :
        n \in NewBranchNameOpts}

\* complete_thinking_session: without a final conclusion, with an empty one
\* and with a text, on the session and on an id that is not held.
CompleteArgs ==
    {<<"s1", c>> : c \in {None, Some(<<"">>), Some(<<"done">>)}}
    \cup {<<NoSuchSession, Some(<<"done">>)>>}

ServerNext ==
    \/ AddThought(ServerInputs)
    \/ GetSummary(SessionIdArgs)
    \/ ListSessions
    \/ SwitchBranch(SwitchBranchArgs)
    \/ CompleteThinkingSession(CompleteArgs)
    \/ ClockForward
    \/ ClockBackward

SpecServer == Init /\ [][ServerNext]_vars

----------------------------------------------------------------------------
(* SpecSessions: several clients, sessions named by the caller and sessions  *)
(* named by the manager                                                      *)

\* sessionManager.getOrCreateSession(sessionId, problem) called directly; an
\* absent problem is stored as '' (`problem || ''`).
GetOrCreateSession(sessionIds, problems) ==
    \E sessionId \in sessionIds, problem \in problems :
        LET creates == ~(TruthyStr(sessionId) /\ Has(sessionId[1]))
            got == getOrCreateSession(sessionId,
                                      IF problem = None THEN <<"">> ELSE problem[1],
                                      uuidCount, now)
        IN  /\ uuidCount + got.drawn <= MaxUuid
            /\ creates => Len(sessions) < MaxSessions
            /\ sessions' = got.sessions
            /\ uuidCount' = uuidCount + got.drawn
            /\ result' = [op |-> "getOrCreateSession", sessionId |-> sessionId,
                          problem |-> problem, ret |-> got.sessions[got.index]]
            /\ appendLog' = IF creates THEN Append(appendLog, <<>>) ELSE appendLog
            /\ UNCHANGED now

\* The sessionId a caller passes where it is optional: none, the empty
\* string, a name of its own, or an id it was given by the manager.
SessionIdOpts ==
    {None, Some(""), Some("s1"), Some("s2")} \cup {Some(id) : id \in HeldIds}

ProblemOpts == {None, Some(<<"seed", "text">>)}

\* The sessionId of the calls where it is required.
SessionIds == {"s1", "s2"} \cup HeldIds

SessionsInputs == {BaseInput(sid, <<"plain", "step">>) : sid \in SessionIdOpts}

SessionsNext ==
    \/ GetOrCreateSession(SessionIdOpts, ProblemOpts)
    \/ AddThought(SessionsInputs)
    \/ SwitchBranch(SessionIds \X {DEFAULT_BRANCH_NAME})
    \/ UpdateSessionStatus(SessionIds \X {"completed"})
    \/ GetSummary(SessionIds)
    \/ ListSessions

SpecSessions == Init /\ [][SessionsNext]_vars

----------------------------------------------------------------------------
(* SpecBranches: one session worked on over two branches, long enough to     *)
(* return to the parent branch after the fork                                *)

BranchesInputs ==
    {BaseInput(Some("s1"), <<"plain", "step">>),
     [BaseInput(Some("s1"), <<"plain", "step">>) EXCEPT !.newBranchName = Some("alt")],
     [BaseInput(Some("s1"), <<"plain", "step">>) EXCEPT
          !.newBranchName = Some("side"), !.branchFromStep = Some(1)],
     [BaseInput(Some("s1"), <<"plain", "step">>) EXCEPT !.branchFromStep = Some(1)]}

BranchesNext ==
    \/ AddThoughtUpTo(BranchesInputs, MaxBranchUuid)
    \/ SwitchBranch({"s1"} \X {DEFAULT_BRANCH_NAME, "alt", "side"})
    \/ GetSummary({"s1"})

SpecBranches == Init /\ [][BranchesNext]_vars

----------------------------------------------------------------------------
(* SpecRoute: the Vercel handler, which keeps its own map of sessions and    *)
(* does not call the session manager                                         *)

\* inferThoughtType of the handler: its own copy of the rule list.
route_inferThoughtType(thought) ==
    LET lower == Lower(thought)
    IN  IF \/ Includes(lower, "?") \/ StartsWith(lower, "what")
           \/ StartsWith(lower, "how") \/ StartsWith(lower, "why")
        THEN "question"
        ELSE IF \/ Includes2(lower, "i", "notice") \/ Includes2(lower, "i", "see")
                \/ Includes(lower, "observe")
        THEN "observation"
        ELSE IF \/ Includes(lower, "therefore") \/ Includes2(lower, "in", "conclusion")
                \/ Includes(lower, "finally")
        THEN "conclusion"
        ELSE IF \/ Includes(lower, "perhaps") \/ Includes(lower, "maybe")
                \/ Includes(lower, "hypothesis")
        THEN "hypothesis"
        ELSE IF \/ Includes(lower, "verify") \/ Includes(lower, "test")
                \/ Includes(lower, "check")
        THEN "verification"
        ELSE IF \/ Includes(lower, "insight") \/ Includes(lower, "realize")
                \/ Includes(lower, "aha")
        THEN "insight"
        ELSE IF \/ Includes(lower, "refine") \/ Includes(lower, "improve")
                \/ Includes(lower, "better")
        THEN "refinement"
        ELSE IF Includes(lower, "reflect") \/ Includes2(lower, "thinking", "about")
        THEN "reflection"
        ELSE "analysis"

\* The session the handler's getOrCreateSession builds: as NewSession, but the
\* title always ends in '...'.
route_NewSession(id, problem, branchUuid, t) ==
    [NewSession(id, problem, branchUuid, t) EXCEPT
         !.title = IF TruthyText(problem)
                   THEN WithEllipsis(SubSeq(problem, 1, Min(6, Len(problem))))
                   ELSE <<"New", "Thinking", "Session">>]

\* The handler's getOrCreateSession(sessionId, problem) with uuidCount = n.
route_getOrCreateSession(sessionId, problem, n, t) ==
    IF TruthyStr(sessionId) /\ Has(sessionId[1])
    THEN [sessions |-> sessions, index |-> IndexOf(sessionId[1]), drawn |-> 0]
    ELSE LET drawnId == IF TruthyStr(sessionId) THEN 0 ELSE 1
             id == IF TruthyStr(sessionId) THEN sessionId[1] ELSE Uuid(n + 1)
         IN  [sessions |-> Append(sessions,
                                  route_NewSession(id, problem, Uuid(n + drawnId + 1), t)),
              index |-> Len(sessions) + 1,
              drawn |-> drawnId + 1]

\* The thought record the sequential_thinking tool builds: the step number is
\* the caller's thoughtNumber, the branch the session's active branch.
route_NewThought(session, args, thoughtUuid, t) ==
    [id |-> thoughtUuid,
     stepNumber |-> args.thoughtNumber,
     thought |-> args.thought,
     thoughtType |-> route_inferThoughtType(args.thought),
     isRevision |-> TruthyBool(args.isRevision),
     revisesStep |-> args.revisesThought,
     branchId |-> session.activeBranchId,
     branchFromStep |-> args.branchFromThought,
     confidence |-> None,
     tags |-> None,
     timestamp |-> t]

\* The sequential_thinking tool of the handler.
SequentialThinking(argsSet) ==
    \E args \in argsSet :
        LET creates == ~(TruthyStr(args.sessionId) /\ Has(args.sessionId[1]))
            got == route_getOrCreateSession(args.sessionId, args.thought,
                                            uuidCount, now)
            n == uuidCount + got.drawn
            session0 == got.sessions[got.index]
            thoughtStep == route_NewThought(session0, args, Uuid(n + 1), now)
            session == [session0 EXCEPT !.thoughts = Append(@, thoughtStep),
                                        !.updatedAt = now]
        IN  /\ n + 1 <= MaxUuid
            /\ creates => Len(sessions) < MaxSessions
            /\ sessions' = [got.sessions EXCEPT ![got.index] = session]
            /\ uuidCount' = n + 1
            /\ result' = [op |-> "sequential_thinking", sid |-> session.id,
                          args |-> args,
                          ret |-> [sessionId |-> session.id,
                                   stepNumber |-> thoughtStep.stepNumber,
                                   totalSteps |-> Len(session.thoughts),
                                   activeBranch |->
                                       BranchNameOrDefault(session, session.activeBranchId),
                                   thoughtType |-> thoughtStep.thoughtType,
                                   isRevision |-> thoughtStep.isRevision,
                                   nextThoughtNeeded |-> args.nextThoughtNeeded,
                                   status |-> IF args.nextThoughtNeeded THEN "continue"
                                              ELSE "complete"]]
            /\ appendLog' =
                   LET log == IF creates THEN Append(appendLog, <<>>) ELSE appendLog
                   IN  [log EXCEPT ![got.index] =
                           Append(@, [id |-> Uuid(n + 1), newBranch |-> FALSE,
                                      routedTo |-> session0.activeBranchId])]
            /\ UNCHANGED now

\* The switch_thinking_branch tool of the handler.
SwitchThinkingBranch(args) ==
    \E sid \in {a[1] : a \in args}, branchName \in {a[2] : a \in args} :
        /\ <<sid, branchName>> \in args
        /\ IF ~Has(sid)
           THEN /\ sessions' = sessions
                /\ result' = [op |-> "switch_thinking_branch", sid |-> sid,
                              branchName |-> branchName,
                              ret |-> [error |-> "Session not found"]]
           ELSE IF BranchByName(Get(sid), branchName) = None
           THEN /\ sessions' = sessions
                /\ result' = [op |-> "switch_thinking_branch", sid |-> sid,
                              branchName |-> branchName,
                              ret |-> [error |-> "Branch not found"]]
           ELSE /\ sessions' = [sessions EXCEPT ![IndexOf(sid)] =
                                    [Get(sid) EXCEPT
                                         !.activeBranchId =
                                             BranchByName(Get(sid), branchName)[1].id,
                                         !.updatedAt = now]]
                /\ result' = [op |-> "switch_thinking_branch", sid |-> sid,
                              branchName |-> branchName,
                              ret |-> [success |-> TRUE, activeBranch |-> branchName]]
        /\ UNCHANGED <<uuidCount, now, appendLog>>

\* Faulty route_Conclusion: the conclusion repeats the step number of the
\* thought before it.
route_Conclusion_RepeatsStep(session, finalConclusion, thoughtUuid, t) ==
    [id |-> thoughtUuid,
     stepNumber |-> Len(session.thoughts),
     thought |-> finalConclusion,
     thoughtType |-> "conclusion",
     isRevision |-> FALSE,
     revisesStep |-> None,
     branchId |-> session.activeBranchId,
     branchFromStep |-> None,
     confidence |-> None,
     tags |-> None,
     timestamp |-> t]

\* The thought complete_thinking_session pushes for a final conclusion.
route_Conclusion(session, finalConclusion, thoughtUuid, t) ==
    [id |-> thoughtUuid,
     stepNumber |-> Len(session.thoughts) + 1,
     thought |-> finalConclusion,
     thoughtType |-> "conclusion",
     isRevision |-> FALSE,
     revisesStep |-> None,
     branchId |-> session.activeBranchId,
     branchFromStep |-> None,
     confidence |-> None,
     tags |-> None,
     timestamp |-> t]

\* The complete_thinking_session tool of the handler; a finalConclusion is a
\* text or absent.
RouteCompleteThinkingSession(args) ==
    \E sid \in {a[1] : a \in args}, finalConclusion \in {a[2] : a \in args} :
        /\ <<sid, finalConclusion>> \in args
        /\ IF ~Has(sid)
           THEN /\ sessions' = sessions
                /\ result' = [op |-> "complete_thinking_session", sid |-> sid,
                              finalConclusion |-> finalConclusion,
                              ret |-> [error |-> "Session not found"]]
                /\ UNCHANGED <<uuidCount, appendLog>>
           ELSE LET session0 == Get(sid)
                    appends == finalConclusion # None /\ TruthyText(finalConclusion[1])
                    conclusion == route_Conclusion(session0, finalConclusion[1],
                                                   Uuid(uuidCount + 1), now)
                    session == [session0 EXCEPT
                                   !.thoughts = IF appends THEN Append(@, conclusion)
                                                ELSE @,
                                   !.status = "completed",
                                   !.updatedAt = now]
                IN  /\ appends => uuidCount + 1 <= MaxUuid
                    /\ sessions' = [sessions EXCEPT ![IndexOf(sid)] = session]
                    /\ uuidCount' = IF appends THEN uuidCount + 1 ELSE uuidCount
                    /\ appendLog' =
                           IF appends
                           THEN [appendLog EXCEPT ![IndexOf(sid)] =
                                    Append(@, [id |-> conclusion.id, newBranch |-> FALSE,
                                               routedTo |-> session0.activeBranchId])]
                           ELSE appendLog
                    /\ result' = [op |-> "complete_thinking_session", sid |-> sid,
                                  finalConclusion |-> finalConclusion,
                                  ret |-> [success |-> TRUE, sessionId |-> session.id,
                                           status |-> "completed",
                                           totalSteps |-> Len(session.thoughts),
                                           conclusions |->
                                               TextsOfType(session.thoughts, "conclusion")]]
        /\ UNCHANGED now

\* The arguments of sequential_thinking (thoughtNumber and totalThoughts are
\* integers >= 1 chosen by the caller).
RouteArgs ==
    {[sessionId |-> Some("s1"), thought |-> <<"plain", "step">>,
      nextThoughtNeeded |-> needed, thoughtNumber |-> number, totalThoughts |-> 2,
      isRevision |-> None, revisesThought |-> None, branchFromThought |-> None,
      branchId |-> branchId, needsMoreThoughts |-> None] :
        needed \in BOOLEAN, number \in 1..2, branchId \in {None, Some("alt")}}

RouteNext ==
    \/ SequentialThinking(RouteArgs)
    \/ SwitchThinkingBranch(SwitchBranchArgs)
    \/ RouteCompleteThinkingSession(CompleteArgs)
    \/ ClockForward

SpecRoute == Init /\ [][RouteNext]_vars

----------------------------------------------------------------------------
(* SpecHandler: the other Vercel handler of the repository (the mcp-handler  *)
(* variant), with its own map of sessions and its own copies of the helpers  *)

\* inferThoughtType of this handler: its own, shorter rule list.
handler_inferThoughtType(thought) ==
    LET lower == Lower(thought)
    IN  IF \/ Includes(lower, "?") \/ StartsWith(lower, "what")
           \/ StartsWith(lower, "how") \/ StartsWith(lower, "why")
        THEN "question"
        ELSE IF Includes2(lower, "i", "notice") \/ Includes(lower, "observe")
        THEN "observation"
        ELSE IF Includes(lower, "therefore") \/ Includes2(lower, "in", "conclusion")
        THEN "conclusion"
        ELSE IF \/ Includes(lower, "perhaps") \/ Includes(lower, "maybe")
                \/ Includes(lower, "hypothesis")
        THEN "hypothesis"
        ELSE IF \/ Includes(lower, "verify") \/ Includes(lower, "test")
                \/ Includes(lower, "check")
        THEN "verification"
        ELSE IF Includes(lower, "insight") \/ Includes(lower, "realize")
        THEN "insight"
        ELSE IF Includes(lower, "refine") \/ Includes(lower, "improve")
        THEN "refinement"
        ELSE IF Includes(lower, "reflect")
        THEN "reflection"
        ELSE "analysis"

\* The session this handler's getOrCreateSession builds: the title ends in
\* '...', or is 'New Session' without a problem text.
handler_NewSession(id, problem, branchUuid, t) ==
    [NewSession(id, problem, branchUuid, t) EXCEPT
         !.title = IF TruthyText(problem)
                   THEN WithEllipsis(SubSeq(problem, 1, Min(6, Len(problem))))
                   ELSE <<"New", "Session">>,
         !.branches = <<[id |-> branchUuid, name |-> DEFAULT_BRANCH_NAME,
                         parentBranchId |-> None, branchFromStepId |-> None,
                         createdAt |-> t, description |-> None]>>]

\* This handler's getOrCreateSession(sessionId, problem) with uuidCount = n.
handler_getOrCreateSession(sessionId, problem, n, t) ==
    IF TruthyStr(sessionId) /\ Has(sessionId[1])
    THEN [sessions |-> sessions, index |-> IndexOf(sessionId[1]), drawn |-> 0]
    ELSE LET drawnId == IF TruthyStr(sessionId) THEN 0 ELSE 1
             id == IF TruthyStr(sessionId) THEN sessionId[1] ELSE Uuid(n + 1)
         IN  [sessions |-> Append(sessions,
                                  handler_NewSession(id, problem,
                                                     Uuid(n + drawnId + 1), t)),
              index |-> Len(sessions) + 1,
              drawn |-> drawnId + 1]

\* The thought record this handler's sequential_thinking tool builds.
handler_NewThought(session, args, thoughtUuid, t) ==
    [id |-> thoughtUuid,
     stepNumber |-> args.thoughtNumber,
     thought |-> args.thought,
     thoughtType |-> handler_inferThoughtType(args.thought),
     isRevision |-> TruthyBool(args.isRevision),
     revisesStep |-> args.revisesThought,
     branchId |-> session.activeBranchId,
     branchFromStep |-> args.branchFromThought,
     confidence |-> None,
     tags |-> None,
     timestamp |-> t]

\* The sequential_thinking tool of this handler.
HandlerSequentialThinking(argsSet) ==
    \E args \in argsSet :
        LET creates == ~(TruthyStr(args.sessionId) /\ Has(args.sessionId[1]))
            got == handler_getOrCreateSession(args.sessionId, args.thought,
                                              uuidCount, now)
            n == uuidCount + got.drawn
            session0 == got.sessions[got.index]
            thoughtStep == handler_NewThought(session0, args, Uuid(n + 1), now)
            session == [session0 EXCEPT !.thoughts = Append(@, thoughtStep),
                                        !.updatedAt = now]
        IN  /\ n + 1 <= MaxUuid
            /\ creates => Len(sessions) < MaxSessions
            /\ sessions' = [got.sessions EXCEPT ![got.index] = session]
            /\ uuidCount' = n + 1
            /\ result' = [op |-> "sequential_thinking", sid |-> session.id,
                          args |-> args,
                          ret |-> [sessionId |-> session.id,
                                   stepNumber |-> thoughtStep.stepNumber,
                                   totalSteps |-> Len(session.thoughts),
                                   activeBranch |->
                                       BranchNameOrDefault(session, session.activeBranchId),
                                   thoughtType |-> thoughtStep.thoughtType,
                                   isRevision |-> thoughtStep.isRevision,
                                   nextThoughtNeeded |-> args.nextThoughtNeeded,
                                   status |-> IF args.nextThoughtNeeded THEN "continue"
                                              ELSE "complete"]]
            /\ appendLog' =
                   LET log == IF creates THEN Append(appendLog, <<>>) ELSE appendLog
                   IN  [log EXCEPT ![got.index] =
                           Append(@, [id |-> Uuid(n + 1), newBranch |-> FALSE,
                                      routedTo |-> session0.activeBranchId])]
            /\ UNCHANGED now

\* The switch_thinking_branch tool of this handler: updatedAt is not written.
HandlerSwitchThinkingBranch(args) ==
    \E sid \in {a[1] : a \in args}, branchName \in {a[2] : a \in args} :
        /\ <<sid, branchName>> \in args
        /\ IF ~Has(sid)
           THEN /\ sessions' = sessions
                /\ result' = [op |-> "switch_thinking_branch", sid |-> sid,
                              branchName |-> branchName,
                              ret |-> [error |-> "Session not found"]]
           ELSE IF BranchByName(Get(sid), branchName) = None
           THEN /\ sessions' = sessions
                /\ result' = [op |-> "switch_thinking_branch", sid |-> sid,
                              branchName |-> branchName,
                              ret |-> [error |-> "Branch not found"]]
           ELSE /\ sessions' = [sessions EXCEPT ![IndexOf(sid)] =
                                    [Get(sid) EXCEPT
                                         !.activeBranchId =
                                             BranchByName(Get(sid), branchName)[1].id]]
                /\ result' = [op |-> "switch_thinking_branch", sid |-> sid,
                              branchName |-> branchName,
                              ret |-> [success |-> TRUE, activeBranch |-> branchName]]
        /\ UNCHANGED <<uuidCount, now, appendLog>>

\* The complete_thinking_session tool of this handler: updatedAt is not
\* written.
HandlerCompleteThinkingSession(args) ==
    \E sid \in {a[1] : a \in args}, finalConclusion \in {a[2] : a \in args} :
        /\ <<sid, finalConclusion>> \in args
        /\ IF ~Has(sid)
           THEN /\ sessions' = sessions
                /\ result' = [op |-> "complete_thinking_session", sid |-> sid,
                              finalConclusion |-> finalConclusion,
                              ret |-> [error |-> "Session not found"]]
                /\ UNCHANGED <<uuidCount, appendLog>>
           ELSE LET session0 == Get(sid)
                    appends == finalConclusion # None /\ TruthyText(finalConclusion[1])
                    conclusion == route_Conclusion(session0, finalConclusion[1],
                                                   Uuid(uuidCount + 1), now)
                    session == [session0 EXCEPT
                                   !.thoughts = IF appends THEN Append(@, conclusion)
                                                ELSE @,
                                   !.status = "completed"]
                IN  /\ appends => uuidCount + 1 <= MaxUuid
                    /\ sessions' = [sessions EXCEPT ![IndexOf(sid)] = session]
                    /\ uuidCount' = IF appends THEN uuidCount + 1 ELSE uuidCount
                    /\ appendLog' =
                           IF appends
                           THEN [appendLog EXCEPT ![IndexOf(sid)] =
                                    Append(@, [id |-> conclusion.id, newBranch |-> FALSE,
                                               routedTo |-> session0.activeBranchId])]
                           ELSE appendLog
                    /\ result' = [op |-> "complete_thinking_session", sid |-> sid,
                                  finalConclusion |-> finalConclusion,
                                  ret |-> [success |-> TRUE, sessionId |-> session.id,
                                           status |-> "completed",
                                           totalSteps |-> Len(session.thoughts)]]
        /\ UNCHANGED now

HandlerNext ==
    \/ HandlerSequentialThinking(RouteArgs)
    \/ HandlerSwitchThinkingBranch(SwitchBranchArgs)
    \/ HandlerCompleteThinkingSession(CompleteArgs)
    \/ ClockForward

SpecHandler == Init /\ [][HandlerNext]_vars

----------------------------------------------------------------------------
(* SpecInfer: inferThoughtType applied to every text of a vocabulary         *)

\* The words of the texts: every keyword of inferThoughtType, capitalised
\* words, words that hold a keyword as a proper substring, and words that
\* match no rule.
Words ==
    {"?", "now?", "what", "What", "whatever", "how", "why",
     "i", "notice", "see", "observe",
     "therefore", "Therefore", "in", "conclusion", "finally",
     "perhaps", "maybe", "Maybe", "hypothesis",
     "verify", "test", "latest", "check",
     "insight", "realize", "aha",
     "refine", "improve", "better",
     "reflect", "thinking", "about",
     "plain", "step"}

\* The empty text and the texts of 1..MaxWords words.
Texts == {<<"">>} \cup UNION {[1..n -> Words] : n \in 1..MaxWords}

InferInit ==
    /\ sessions = <<>>
    /\ uuidCount = 0
    /\ now = 0
    /\ result \in {[op |-> "text", thought |-> text] : text \in Texts}
    /\ appendLog = <<>>

\* this.inferThoughtType(thought)
InferThoughtType ==
    /\ result.op = "text"
    /\ result' = [op |-> "inferThoughtType", thought |-> result.thought,
                  ret |-> inferThoughtType(result.thought)]
    /\ UNCHANGED <<sessions, uuidCount, now, appendLog>>

InferNext == InferThoughtType

SpecInfer == InferInit /\ [][InferNext]_vars

----------------------------------------------------------------------------
(* SpecCopies: one text classified by each of the three copies of            *)
(* inferThoughtType the repository holds                                     *)

\* The session manager's, the route handler's and the mcp-handler variant's
\* inferThoughtType applied to the same text.
InferThoughtTypeCopies ==
    /\ result.op = "text"
    /\ result' = [op |-> "inferThoughtTypeCopies", thought |-> result.thought,
                  manager |-> inferThoughtType(result.thought),
                  route |-> route_inferThoughtType(result.thought),
                  handler |-> handler_inferThoughtType(result.thought)]
    /\ UNCHANGED <<sessions, uuidCount, now, appendLog>>

CopiesNext == InferThoughtTypeCopies

SpecCopies == InferInit /\ [][CopiesNext]_vars

----------------------------------------------------------------------------
(* SpecTexts: one session fed with texts of several lengths and kinds, with  *)
(* and without an explicit thoughtType                                       *)

\* The thought texts tried: the empty text, a text no rule matches, a text of
\* exactly six words, a text of seven words, and texts that match rules.
ThoughtTexts ==
    {<<"">>,
     <<"plain", "step">>,
     <<"what", "better", "plain", "step", "in", "conclusion">>,
     <<"i", "notice", "plain", "step", "about", "latest", "check">>,
     <<"Maybe", "latest">>}

\* The thoughtType the caller gives: none, or a member of the enumeration.
ThoughtTypeOpts == {None, Some("insight"), Some("analysis")}

TextsInputs ==
    {[BaseInput(Some("s1"), thought) EXCEPT !.thoughtType = type] :
        thought \in ThoughtTexts, type \in ThoughtTypeOpts}

TextsNext ==
    \/ AddThought(TextsInputs)
    \/ UpdateSessionStatus({<<"s1", "completed">>})
    \/ SwitchBranch({<<"s1", DEFAULT_BRANCH_NAME>>})
    \/ GetSummary({"s1"})

SpecTexts == Init /\ [][TextsNext]_vars

----------------------------------------------------------------------------
(* SpecProgress: one session fed with thoughts of tallied and untallied      *)
(* types while its status changes                                            *)

\* A text no rule matches, a conclusion, an observation, and a conclusion
\* that opens a branch.
ProgressInputs ==
    {BaseInput(Some("s1"), <<"plain", "step">>),
     BaseInput(Some("s1"), <<"therefore", "step">>),
     BaseInput(Some("s1"), <<"i", "notice", "step">>),
     [BaseInput(Some("s1"), <<"in", "conclusion">>) EXCEPT
          !.newBranchName = Some("alt")]}

ProgressNext ==
    \/ AddThought(ProgressInputs)
    \/ UpdateSessionStatus({"s1"} \X SessionStatuses)
    \/ SwitchBranch({<<"s1", DEFAULT_BRANCH_NAME>>})
    \/ GetProgress

SpecProgress == Init /\ [][ProgressNext]_vars

----------------------------------------------------------------------------
(* SpecTimeline: one session whose thoughts of several types are stamped by  *)
(* a clock that can be set back, and summarised again and again              *)

\* A thought of inferred type analysis, an insight and a conclusion.
TimelineInputs ==
    {BaseInput(Some("s1"), <<"plain", "step">>),
     [BaseInput(Some("s1"), <<"key", "point">>) EXCEPT
          !.thoughtType = Some("insight")],
     [BaseInput(Some("s1"), <<"final", "answer">>) EXCEPT
          !.thoughtType = Some("conclusion")]}

TimelineNext ==
    \/ AddThoughtUpTo(TimelineInputs, MaxTimelineUuid)
    \/ GetSummary({"s1"})
    \/ ClockForward
    \/ ClockBackward

SpecTimeline == Init /\ [][TimelineNext]_vars

----------------------------------------------------------------------------
(* SpecValidation: the CallTool handler of the stdio server fed with         *)
(* arguments as they come off the wire, before the schema has seen them      *)

\* JSON values of the arguments object: a string (a text, or an id or name as
\* a text of one word), a boolean, a number.  Numbers are held in tenths, so
\* that 0.5 is JNumber(5).
JString(text) == [type |-> "string", text |-> text, number |-> 0, boolean |-> FALSE]
JBoolean(b) == [type |-> "boolean", text |-> <<>>, number |-> 0, boolean |-> b]
JNumber(tenths) == [type |-> "number", text |-> <<>>, number |-> tenths, boolean |-> FALSE]

\* max(1) of the confidence schema, in tenths.
ConfidenceMax == 10

\* A required or an optional key holds a value of the type.
IsA(v, type) == v # None /\ v[1].type = type
OptionalA(v, type) == v = None \/ v[1].type = type

\* Faulty parse: the range of confidence is not checked.
SequentialThinkingInputSchema_AnyConfidence(args) ==
    IF /\ OptionalA(args.sessionId, "string")
       /\ IsA(args.thought, "string")
       /\ OptionalA(args.thoughtType, "string")
       /\ args.thoughtType # None => args.thoughtType[1].text[1] \in ThoughtTypes
       /\ OptionalA(args.isRevision, "boolean")
       /\ OptionalA(args.revisesStep, "number")
       /\ OptionalA(args.branchFromStep, "number")
       /\ OptionalA(args.newBranchName, "string")
       /\ OptionalA(args.confidence, "number")
       /\ IsA(args.nextThoughtNeeded, "boolean")
    THEN Some([sessionId |-> IF args.sessionId = None THEN None
                             ELSE Some(args.sessionId[1].text[1]),
               thought |-> args.thought[1].text,
               thoughtType |-> IF args.thoughtType = None THEN None
                               ELSE Some(args.thoughtType[1].text[1]),
               isRevision |-> IF args.isRevision = None THEN Some(FALSE)
                              ELSE Some(args.isRevision[1].boolean),
               revisesStep |-> IF args.revisesStep = None THEN None
                               ELSE Some(args.revisesStep[1].number),
               branchId |-> None,
               branchFromStep |-> IF args.branchFromStep = None THEN None
                                  ELSE Some(args.branchFromStep[1].number),
               newBranchName |-> IF args.newBranchName = None THEN None
                                 ELSE Some(args.newBranchName[1].text[1]),
               confidence |-> IF args.confidence = None THEN None
                              ELSE Some(args.confidence[1].number),
               tags |-> None,
               nextThoughtNeeded |-> args.nextThoughtNeeded[1].boolean])
    ELSE None

\* SequentialThinkingInputSchema.parse(args): the AddThoughtInput, or None
\* where parse throws.  Keys the schema does not name (branchId) are stripped
\* and isRevision defaults to false.
SequentialThinkingInputSchema(args) ==
    IF /\ OptionalA(args.sessionId, "string")
       /\ IsA(args.thought, "string")
       /\ OptionalA(args.thoughtType, "string")
       /\ args.thoughtType # None => args.thoughtType[1].text[1] \in ThoughtTypes
       /\ OptionalA(args.isRevision, "boolean")
       /\ OptionalA(args.revisesStep, "number")
       /\ OptionalA(args.branchFromStep, "number")
       /\ OptionalA(args.newBranchName, "string")
       /\ OptionalA(args.confidence, "number")
       /\ args.confidence # None =>
              /\ args.confidence[1].number >= 0
              /\ args.confidence[1].number <= ConfidenceMax
       /\ IsA(args.nextThoughtNeeded, "boolean")
    THEN Some([sessionId |-> IF args.sessionId = None THEN None
                             ELSE Some(args.sessionId[1].text[1]),
               thought |-> args.thought[1].text,
               thoughtType |-> IF args.thoughtType = None THEN None
                               ELSE Some(args.thoughtType[1].text[1]),
               isRevision |-> IF args.isRevision = None THEN Some(FALSE)
                              ELSE Some(args.isRevision[1].boolean),
               revisesStep |-> IF args.revisesStep = None THEN None
                               ELSE Some(args.revisesStep[1].number),
               branchId |-> None,
               branchFromStep |-> IF args.branchFromStep = None THEN None
                                  ELSE Some(args.branchFromStep[1].number),
               newBranchName |-> IF args.newBranchName = None THEN None
                                 ELSE Some(args.newBranchName[1].text[1]),
               confidence |-> IF args.confidence = None THEN None
                              ELSE Some(args.confidence[1].number),
               tags |-> None,
               nextThoughtNeeded |-> args.nextThoughtNeeded[1].boolean])
    ELSE None

\* The names the switch of the handler knows.
ToolNames ==
    {"sequential_thinking", "get_thinking_summary", "list_thinking_sessions",
     "switch_thinking_branch", "complete_thinking_session"}

\* The handler on a sequential_thinking request: parse, then addThought; a
\* throw of parse is caught and answered with isError.
CallToolSequentialThinking(requests) ==
    \E request \in requests :
        /\ request.name = "sequential_thinking"
        /\ LET parsed == SequentialThinkingInputSchema(request.arguments)
           IN  IF parsed = None
               THEN /\ result' = [op |-> "CallTool", request |-> request,
                                  isError |-> TRUE]
                    /\ UNCHANGED <<sessions, uuidCount, appendLog>>
               ELSE LET input == parsed[1]
                        creates == ~(TruthyStr(input.sessionId)
                                     /\ Has(input.sessionId[1]))
                        got == getOrCreateSession(input.sessionId, input.thought,
                                                  uuidCount, now)
                        n == uuidCount + got.drawn
                        branches == IF TruthyStr(input.newBranchName) THEN 1 ELSE 0
                        done == addThought(got.sessions[got.index], input,
                                           Uuid(n + 1), Uuid(n + branches + 1), now)
                    IN  /\ uuidCount + UuidsDrawn(input) <= MaxUuid
                        /\ creates => Len(sessions) < MaxSessions
                        /\ sessions' = [got.sessions EXCEPT ![got.index] = done.session]
                        /\ uuidCount' = n + branches + 1
                        /\ result' = [op |-> "CallTool", request |-> request,
                                      isError |-> FALSE]
                        /\ appendLog' =
                               LET log == IF creates THEN Append(appendLog, <<>>)
                                          ELSE appendLog
                               IN  [log EXCEPT ![got.index] =
                                       Append(@, [id |-> Uuid(n + branches + 1),
                                                  newBranch |->
                                                      TruthyStr(input.newBranchName),
                                                  routedTo |->
                                                      IF TruthyStr(input.newBranchName)
                                                      THEN Uuid(n + 1)
                                                      ELSE got.sessions[got.index]
                                                               .activeBranchId])]
        /\ UNCHANGED now

\* The handler on a name its switch does not know: the default case.
CallToolUnknown(requests) ==
    \E request \in requests :
        /\ request.name \notin ToolNames
        /\ result' = [op |-> "CallTool", request |-> request, isError |-> TRUE]
        /\ UNCHANGED <<sessions, uuidCount, now, appendLog>>

\* Arguments the schema accepts, for the session id.
GoodArguments(sid) ==
    [sessionId |-> Some(JString(<<sid>>)),
     thought |-> Some(JString(<<"plain", "step">>)),
     thoughtType |-> None, isRevision |-> None, revisesStep |-> None,
     branchFromStep |-> None, newBranchName |-> None, confidence |-> None,
     nextThoughtNeeded |-> Some(JBoolean(TRUE))]

\* Arguments with one defect each, and arguments with a confidence on the
\* edges of and inside the range.
ArgumentsTried(sid) ==
    {GoodArguments(sid),
     [GoodArguments(sid) EXCEPT !.thought = None],
     [GoodArguments(sid) EXCEPT !.thought = Some(JNumber(70))],
     [GoodArguments(sid) EXCEPT !.nextThoughtNeeded = None],
     [GoodArguments(sid) EXCEPT !.nextThoughtNeeded = Some(JString(<<"yes">>))]}
    \cup
    {[GoodArguments(sid) EXCEPT !.confidence = Some(JNumber(c))] :
        c \in {0 - 1, 0, 5, ConfidenceMax, ConfidenceMax + 1}}

ValidationRequests ==
    {[name |-> name, arguments |-> arguments] :
        name \in {"sequential_thinking", "no_such_tool"},
        arguments \in ArgumentsTried("s1") \cup ArgumentsTried("s2")}

ValidationNext ==
    \/ CallToolSequentialThinking(ValidationRequests)
    \/ CallToolUnknown(ValidationRequests)

SpecValidation == Init /\ [][ValidationNext]_vars

----------------------------------------------------------------------------
(* SpecFrame: two sessions side by side, each worked on under its own id     *)
(* while time passes                                                         *)

FrameIds == {"s1", "s2"}

\* Appends to either session, with and without a fork.
FrameInputs ==
    {[BaseInput(Some(sid), <<"plain", "step">>) EXCEPT !.newBranchName = n] :
        sid \in FrameIds, n \in NewBranchNameOpts}

FrameNext ==
    \/ AddThoughtUpTo(FrameInputs, MaxFrameUuid)
    \/ SwitchBranch(FrameIds \X {DEFAULT_BRANCH_NAME, "alt"})
    \/ UpdateSessionStatus(FrameIds \X {"completed"})
    \/ GetSummary(FrameIds)
    \/ ClockForward

SpecFrame == Init /\ [][FrameNext]_vars

----------------------------------------------------------------------------
(* SpecConcurrent: two clients send sequential_thinking requests for the     *)
(* same session to the stdio server.  The CallTool handler has no await      *)
(* between SequentialThinkingInputSchema.parse and its return, so the event  *)
(* loop runs one request's callback to its end before it starts the next:    *)
(* the requests in flight are handled one whole addThought at a time, in any *)
(* order.                                                                    *)

\* The requests the clients a and b have in flight: each names itself in its
\* text; b also forks branches.
ConcurrentInputs ==
    {[BaseInput(Some("s1"), <<client, "step">>) EXCEPT !.isRevision = Some(FALSE)] :
        client \in {"a", "b"}}
    \cup
    {[BaseInput(Some("s1"), <<"b", "step">>) EXCEPT
          !.isRevision = Some(FALSE), !.newBranchName = Some("alt")]}

\* The event loop runs the callback of one of the requests in flight.
ConcurrentNext == AddThoughtUpTo(ConcurrentInputs, MaxBranchUuid)

SpecConcurrent == Init /\ [][ConcurrentNext]_vars

----------------------------------------------------------------------------
(* Vocabulary of the properties *)

\* Whether a map of sessions (sessions or sessions') holds the id.
HeldIn(held, sid) == \E i \in 1..Len(held) : held[i].id = sid

\* The session of that id in a map of sessions.
SessionOf(held, sid) == held[CHOOSE i \in 1..Len(held) : held[i].id = sid]

\* The thoughts a session id stands for in a map: none when it is not held.
ThoughtsOf(held, sid) ==
    IF HeldIn(held, sid) THEN SessionOf(held, sid).thoughts ELSE <<>>

\* The branches getOrCreateSession hands to addThought: those of the held
\* session, or the single main branch of a session it creates.
BranchCountBefore(held, sid) ==
    IF HeldIn(held, sid) THEN Len(SessionOf(held, sid).branches) ELSE 1

Last(seq) == seq[Len(seq)]

IsPrefix(a, b) == Len(a) <= Len(b) /\ SubSeq(b, 1, Len(a)) = a

BranchIdsOf(session) == {session.branches[j].id : j \in 1..Len(session.branches)}

\* The thoughts of the i-th session in the order they were appended.
InAppendOrder(i) ==
    [k \in 1..Len(appendLog[i]) |->
        LET WasAppended(th) == th.id = appendLog[i][k].id
        IN  SelectSeq(sessions[i].thoughts, WasAppended)[1]]

\* The step in progress is an addThought call (no other call draws a uuid).
\* An action formula: to be used inside [][...]_vars only.
IsAddThoughtStep == uuidCount' # uuidCount

\* The addThought input gives neither newBranchName nor branchId.
NoBranchDirective(input) == input.newBranchName = None /\ input.branchId = None

----------------------------------------------------------------------------
(* Properties *)

\* C1: in every reachable state, for every session and every branch id, the
\* stepNumber values of the thoughts carrying that branch id, taken in append
\* order, are 1, 2, ..., k: no gap and no repeated value.
C1_StepNumbersContiguous ==
    \A i \in 1..Len(sessions) :
        /\ Len(appendLog[i]) = Len(sessions[i].thoughts)
        /\ \A b \in {sessions[i].thoughts[k].branchId :
                        k \in 1..Len(sessions[i].thoughts)} :
              LET OnBranch(th) == th.branchId = b
                  onBranch == SelectSeq(InAppendOrder(i), OnBranch)
              IN  \A k \in 1..Len(onBranch) : onBranch[k].stepNumber = k

\* C1 witness: a session that holds two thoughts on one branch and whose array
\* is no longer in append order (getSummary sorted it).
C1_Witness ==
    \E i \in 1..Len(sessions) :
        /\ sessions[i].thoughts # InAppendOrder(i)
        /\ \E b \in BranchIdsOf(sessions[i]) :
              Len(BranchThoughts(sessions[i], b)) = 2

\* C2: of two consecutive addThought calls on one session that give neither
\* newBranchName nor branchId, the second returns the stepNumber and the
\* totalSteps of the first plus one; and such a call returns stepNumber 1 when
\* the active branch holds no thought.
C2_ConsecutiveAppendsCount ==
    [][(IsAddThoughtStep /\ NoBranchDirective(result'.input)) =>
          /\ (/\ result.op = "addThought"
              /\ NoBranchDirective(result.input)
              /\ result.sid = result'.sid)
             => /\ result'.ret.stepNumber = result.ret.stepNumber + 1
                /\ result'.ret.totalSteps = result.ret.totalSteps + 1
          /\ (\/ ~HeldIn(sessions, result'.sid)
              \/ BranchThoughts(SessionOf(sessions, result'.sid),
                                SessionOf(sessions, result'.sid).activeBranchId) = <<>>)
             => result'.ret.stepNumber = 1
      ]_vars

\* C2 witness: the second of two such calls has returned.
C2_Witness ==
    /\ result.op = "addThought"
    /\ NoBranchDirective(result.input)
    /\ result.ret.stepNumber = 2
    /\ result.ret.totalSteps = 2

\* What C3 says of an addThought step on the session sid with that input.
NewBranchIsCreatedAndActive(sid, input) ==
    LET after == SessionOf(sessions', sid)
        newBranch == Last(after.branches)
        stored == Last(after.thoughts)
    IN  /\ Len(after.branches) = BranchCountBefore(sessions, sid) + 1
        /\ HeldIn(sessions, sid) =>
              /\ IsPrefix(SessionOf(sessions, sid).branches, after.branches)
              /\ newBranch.id \notin BranchIdsOf(SessionOf(sessions, sid))
        /\ newBranch.name = input.newBranchName[1]
        /\ after.activeBranchId = newBranch.id
        /\ stored.id = Uuid(uuidCount')
        /\ stored.branchId = newBranch.id
        /\ stored.stepNumber = 1

\* C3 as amended: every addThought call that carries a non-empty newBranchName
\* (with or without branchId or branchFromStep) lengthens the session's
\* branches by exactly one, leaves activeBranchId at the new branch and stores
\* the thought with that branch's id and stepNumber 1.
C3_NewBranchCreatedAndActive ==
    [][(IsAddThoughtStep /\ TruthyStr(result'.input.newBranchName)) =>
          NewBranchIsCreatedAndActive(result'.sid, result'.input)
      ]_vars

\* C3 as stated: the same of every addThought call that carries a
\* newBranchName, the empty string included.
C3_Original ==
    [][(IsAddThoughtStep /\ result'.input.newBranchName # None) =>
          NewBranchIsCreatedAndActive(result'.sid, result'.input)
      ]_vars

\* C3 witness: an addThought call that carried newBranchName together with the
\* id of a branch that does not exist has created the second branch.
C3_Witness ==
    /\ result.op = "addThought"
    /\ result.input.newBranchName = Some("alt")
    /\ result.input.branchId = Some(NoSuchBranch)
    /\ result.ret.branchCount = 2
    /\ result.ret.stepNumber = 1

\* C4: in every reachable state each session's activeBranchId is the id of one
\* of its branches.
C4_ActiveBranchExists ==
    \A i \in 1..Len(sessions) :
        sessions[i].activeBranchId \in BranchIdsOf(sessions[i])

\* C4 witness: addThought was called with a branchId naming no branch, and the
\* thought is stored.
C4_Witness ==
    /\ result.op = "addThought"
    /\ result.input.branchId = Some(NoSuchBranch)
    /\ result.input.newBranchName = None
    /\ \E i \in 1..Len(sessions) :
          /\ sessions[i].id = result.sid
          /\ Last(sessions[i].thoughts).branchId = NoSuchBranch

\* C5 as stated: in every reachable state every stored thought's branchId is
\* the id of a branch of the same session.
C5_ThoughtBranchExists ==
    \A i \in 1..Len(sessions) :
        \A k \in 1..Len(sessions[i].thoughts) :
            sessions[i].thoughts[k].branchId \in BranchIdsOf(sessions[i])

\* C6: across every addThought, switchBranch and updateSessionStatus call the
\* session's thoughts before the call are a prefix of its thoughts after it,
\* every field of every earlier thought unchanged; the length grows by one on
\* addThought and by nothing on the other two.
C6_ThoughtsAppendOnly ==
    [][result'.op \in {"addThought", "switchBranch", "updateSessionStatus"} =>
          LET before == ThoughtsOf(sessions, result'.sid)
              after == ThoughtsOf(sessions', result'.sid)
          IN  /\ IsPrefix(before, after)
              /\ Len(after) = Len(before) + (IF IsAddThoughtStep THEN 1 ELSE 0)
      ]_vars

\* C6 witness: a thought was appended behind an earlier thought of another
\* branch id.
C6_Witness ==
    /\ result.op = "addThought"
    /\ Len(ThoughtsOf(sessions, result.sid)) = 2
    /\ ThoughtsOf(sessions, result.sid)[1].branchId = NoSuchBranch
    /\ ThoughtsOf(sessions, result.sid)[2].branchId # NoSuchBranch

\* C7 as stated: getSummary, listSessions and getProgress change nothing of any
\* session, whatever the stored timestamps: thoughts and their order,
\* branches, activeBranchId, status and updatedAt are the same after the call.
C7_ReadsArePure ==
    [][result'.op \in {"getSummary", "listSessions", "getProgress"} =>
          sessions' = sessions
      ]_vars

\* The switchBranch call names a session that is not held or a branch name the
\* session does not have.
SwitchTargetMissing(sid, branchName) ==
    \/ ~HeldIn(sessions, sid)
    \/ BranchByName(SessionOf(sessions, sid), branchName) = None

\* C8: switchBranch with an unknown session id, or with a name no branch of the
\* session has, returns false and changes nothing: no session is created and
\* activeBranchId, updatedAt, thoughts and branches stay as they were.
C8_FailedSwitchChangesNothing ==
    [][(result'.op = "switchBranch"
        /\ SwitchTargetMissing(result'.sid, result'.branchName)) =>
          /\ result'.ret = FALSE
          /\ sessions' = sessions
      ]_vars

\* C8 witness: switchBranch has failed on a held session that has two branches
\* and was last updated at another time than the call's.
C8_Witness ==
    /\ result.op = "switchBranch"
    /\ result.ret = FALSE
    /\ HeldIn(sessions, result.sid)
    /\ Len(SessionOf(sessions, result.sid).branches) = 2
    /\ SessionOf(sessions, result.sid).updatedAt # now

BranchesCreated(i) ==
    LET Created(entry) == entry.newBranch
    IN  Len(SelectSeq(appendLog[i], Created))

\* C10 as stated: after N addThought calls on a session that created B-1
\* branches, getSummary reports totalSteps = N and B branches whose stepCount
\* values sum to N.
C10_SummaryRoundTrip ==
    (result.op = "getSummary" /\ result.ret # None) =>
        LET i == CHOOSE i \in 1..Len(sessions) : sessions[i].id = result.sid
            summary == result.ret[1]
        IN  /\ summary.totalSteps = Len(appendLog[i])
            /\ Len(summary.branches) = BranchesCreated(i) + 1
            /\ Sum([j \in 1..Len(summary.branches) |->
                       summary.branches[j].stepCount]) = Len(appendLog[i])

\* C11: a getSummary call repeated on the same session id, or a listSessions
\* call repeated, with no mutating call in between returns what the call
\* before it returned: the same totals, branch breakdown, keyInsights,
\* conclusions and timeline in the same order (null again for an id that is
\* not held).
C11_RepeatedReadsAgree ==
    /\ (result.op = "getSummary" /\ result.ret # None) =>
          /\ Has(result.sid)
          /\ getSummary(Get(result.sid)).ret = result.ret[1]
    /\ (result.op = "getSummary" /\ result.ret = None) => ~Has(result.sid)
    /\ result.op = "listSessions" => listSessions(sessions) = result.ret
    /\ \A i \in 1..Len(sessions) :
          LET first == getSummary(sessions[i])
          IN  getSummary(first.session).ret = first.ret

\* C11 witness: getSummary has returned a timeline of two thoughts after
\* sorting the array out of its append order, so that the repeated call works
\* on an array the first call has changed.
C11_Witness ==
    /\ result.op = "getSummary"
    /\ result.ret # None
    /\ Len(result.ret[1].timeline) = 2
    /\ \E i \in 1..Len(sessions) :
          /\ sessions[i].id = result.sid
          /\ sessions[i].thoughts # InAppendOrder(i)

\* The step in progress is a call (the clock stands still during a call).
\* An action formula: to be used inside [][...]_vars only.
IsCallStep == now' = now

\* What C12 says of a complete_thinking_session call on the held session sid.
CompletionAppendsConclusion(sid, finalConclusion) ==
    LET before == SessionOf(sessions, sid)
        after == SessionOf(sessions', sid)
    IN  /\ after.status = "completed"
        /\ IF finalConclusion # None /\ TruthyText(finalConclusion[1])
           THEN /\ Len(after.thoughts) = Len(before.thoughts) + 1
                /\ IsPrefix(before.thoughts, after.thoughts)
                /\ Last(after.thoughts).thought = finalConclusion[1]
                /\ Last(after.thoughts).thoughtType = "conclusion"
                /\ Last(after.thoughts).branchId = before.activeBranchId
           ELSE after.thoughts = before.thoughts

\* C12 as stated, for the stdio server: complete_thinking_session on a held
\* session with a non-empty final conclusion appends exactly one thought, of
\* type conclusion, on the branch active at that moment, and sets the status
\* to completed; without one it appends nothing and sets the status.
C12_CompletionAppendsConclusion ==
    [][(/\ IsCallStep
        /\ result'.op = "complete_thinking_session"
        /\ HeldIn(sessions, result'.sid)) =>
          CompletionAppendsConclusion(result'.sid, result'.finalConclusion)
      ]_vars

\* C13: getSummary, switchBranch and updateSessionStatus called with a session
\* id that is not held return null, false and false, create no session under
\* that id and change no held session.
C13_UnknownSessionNotFound ==
    [][(/\ IsCallStep
        /\ result'.op \in {"getSummary", "switchBranch", "updateSessionStatus"}
        /\ ~HeldIn(sessions, result'.sid)) =>
          /\ result'.ret = (IF result'.op = "getSummary" THEN None ELSE FALSE)
          /\ sessions' = sessions
      ]_vars

\* C13 witness: getSummary has returned null for an id that is not held while
\* another session holds a thought.
C13_Witness ==
    /\ result.op = "getSummary"
    /\ result.ret = None
    /\ ~Has(result.sid)
    /\ \E i \in 1..Len(sessions) : sessions[i].thoughts # <<>>

\* The sessionId argument of the getOrCreateSession or addThought call in
\* progress (an action-level expression).
SessionIdArg ==
    IF result'.op = "addThought" THEN result'.input.sessionId ELSE result'.sessionId

\* What C14 says of a getOrCreateSession or addThought step whose sessionId
\* argument is sessionId; supplied tells whether the argument counts as an id
\* the caller supplied.
SessionIsGotOrCreated(sessionId, supplied) ==
    IF TruthyStr(sessionId) /\ HeldIn(sessions, sessionId[1])
    THEN LET before == SessionOf(sessions, sessionId[1])
             after == SessionOf(sessions', sessionId[1])
         IN  /\ Len(sessions') = Len(sessions)
             /\ \A i \in 1..Len(sessions) :
                    sessions[i].id # sessionId[1] => sessions'[i] = sessions[i]
             /\ IF result'.op = "getOrCreateSession"
                THEN after = before /\ result'.ret = before
                ELSE /\ result'.ret.sessionId = sessionId[1]
                     /\ after.createdAt = before.createdAt
                     /\ after.status = before.status
                     /\ after.branches = before.branches
                     /\ after.activeBranchId = before.activeBranchId
                     /\ IsPrefix(before.thoughts, after.thoughts)
                     /\ TruthyText(before.problem) =>
                            /\ after.problem = before.problem
                            /\ after.title = before.title
    ELSE LET new == Last(sessions')
         IN  /\ Len(sessions') = Len(sessions) + 1
             /\ IsPrefix(sessions, sessions')
             /\ ~HeldIn(sessions, new.id)
             /\ supplied => new.id = sessionId[1]
             /\ Len(new.branches) = 1
             /\ new.branches[1].name = DEFAULT_BRANCH_NAME
             /\ new.activeBranchId = new.branches[1].id
             /\ new.status = "active"
             /\ IF result'.op = "getOrCreateSession"
                THEN new.thoughts = <<>> /\ result'.ret = new
                ELSE Len(new.thoughts) = 1 /\ result'.ret.sessionId = new.id

\* C14 as amended: getOrCreateSession (and addThought through it) with an id
\* that is held returns that session unchanged, ignoring the seed text; with
\* an id that is not held, an empty id or no id it adds exactly one session,
\* with one branch named main that is active, status active and no thought,
\* stored under the supplied id when a non-empty id was supplied.
C14_GetOrCreateSession ==
    [][(IsCallStep /\ result'.op \in {"getOrCreateSession", "addThought"}) =>
          SessionIsGotOrCreated(SessionIdArg, TruthyStr(SessionIdArg))
      ]_vars

\* C14 as stated: the same, the new session stored under the supplied id
\* whenever an id was supplied, the empty string included.
C14_Original ==
    [][(IsCallStep /\ result'.op \in {"getOrCreateSession", "addThought"}) =>
          SessionIsGotOrCreated(SessionIdArg, SessionIdArg # None)
      ]_vars

\* C14 witness: getOrCreateSession was called with a seed text on a held
\* session that has another problem, while a second session is held.
C14_Witness ==
    /\ result.op = "getOrCreateSession"
    /\ result.problem # None
    /\ Len(sessions) = 2
    /\ result.ret \in {sessions[i] : i \in 1..Len(sessions)}
    /\ result.ret.problem # result.problem[1]
    /\ result.ret.thoughts # <<>>

\* C15: no call removes a session id from the map, and an addThought call
\* that passes a held id appends to that session and adds no session.
C15_SessionsNeverShrink ==
    [][/\ \A i \in 1..Len(sessions) : HeldIn(sessions', sessions[i].id)
       /\ Len(sessions') >= Len(sessions)
       /\ (/\ IsCallStep
           /\ result'.op = "addThought"
           /\ TruthyStr(result'.input.sessionId)
           /\ HeldIn(sessions, result'.input.sessionId[1])) =>
             LET sid == result'.input.sessionId[1]
             IN  /\ Len(sessions') = Len(sessions)
                 /\ result'.ret.sessionId = sid
                 /\ Len(ThoughtsOf(sessions', sid)) = Len(ThoughtsOf(sessions, sid)) + 1
      ]_vars

\* C15 witness: with two sessions held, addThought has appended to the one
\* created first.
C15_Witness ==
    /\ result.op = "addThought"
    /\ Len(sessions) = 2
    /\ result.input.sessionId = Some(sessions[1].id)
    /\ Len(appendLog[1]) = 1
    /\ sessions[2].thoughts = <<>>

\* The number of addThought calls of the i-th session routed to a branch id.
RoutedTo(log, branchId) ==
    LET Routed(entry) == entry.routedTo = branchId
    IN  Len(SelectSeq(log, Routed))

\* C16: the first thought appended to a newly created branch gets stepNumber
\* 1 whatever the parent branch holds; an append without branch directive
\* (after switchBranch back to the parent in particular) gets the number of
\* appends routed to the active branch plus one, whatever was appended to
\* other branches; and getSummary reports for each branch a stepCount equal
\* to the number of appends routed to it.
C16_NumberingPerBranch ==
    [][/\ (IsCallStep /\ result'.op = "addThought") =>
             LET i == CHOOSE i \in 1..Len(sessions') : sessions'[i].id = result'.sid
                 stored == Last(sessions'[i].thoughts)
             IN  /\ TruthyStr(result'.input.newBranchName) =>
                        /\ stored.stepNumber = 1
                        /\ stored.branchId = Last(sessions'[i].branches).id
                 /\ (NoBranchDirective(result'.input) /\ HeldIn(sessions, result'.sid)) =>
                        /\ stored.branchId = sessions[i].activeBranchId
                        /\ stored.stepNumber =
                               RoutedTo(appendLog[i], sessions[i].activeBranchId) + 1
                        /\ result'.ret.stepNumber = stored.stepNumber
       /\ (result'.op = "getSummary" /\ result'.ret # None) =>
             LET i == CHOOSE i \in 1..Len(sessions') : sessions'[i].id = result'.sid
                 summary == result'.ret[1]
             IN  /\ Len(summary.branches) = Len(sessions'[i].branches)
                 /\ \A j \in 1..Len(summary.branches) :
                        /\ summary.branches[j].id = sessions'[i].branches[j].id
                        /\ summary.branches[j].stepCount =
                               RoutedTo(appendLog'[i], summary.branches[j].id)
      ]_vars

\* C16 witness: two appends on main around a fork (the second after
\* switchBranch back to main), one on the new branch, and getSummary has
\* reported main: 2 steps, alt: 1 step.
C16_Witness ==
    /\ result.op = "getSummary"
    /\ result.ret # None
    /\ Len(result.ret[1].branches) = 2
    /\ result.ret[1].branches[1].stepCount = 2
    /\ result.ret[1].branches[2].stepCount = 1
    /\ Len(appendLog[1]) = 3
    /\ appendLog[1][2].newBranch
    /\ appendLog[1][3].routedTo = result.ret[1].branches[1].id

\* C17 as stated: the stepNumber the handler's sequential_thinking tool stores
\* on a thought is the number of thoughts already on that thought's branch
\* plus one, whatever thoughtNumber the caller sent.
C17_RouteStepNumberAssigned ==
    [][(IsCallStep /\ result'.op = "sequential_thinking") =>
          LET stored == Last(ThoughtsOf(sessions', result'.sid))
              before == ThoughtsOf(sessions, result'.sid)
              OnBranch(th) == th.branchId = stored.branchId
          IN  stored.stepNumber = Len(SelectSeq(before, OnBranch)) + 1
      ]_vars

\* The rules of the classification in the order they are tried.
RuleOrder ==
    <<"question", "observation", "conclusion", "hypothesis", "verification",
      "insight", "refinement", "reflection">>

\* The keyword condition of one rule on a lower-cased text.
RuleHolds(type, lower) ==
    CASE type = "question" ->
             \/ Includes(lower, "?") \/ StartsWith(lower, "what")
             \/ StartsWith(lower, "how") \/ StartsWith(lower, "why")
      [] type = "observation" ->
             \/ Includes2(lower, "i", "notice") \/ Includes2(lower, "i", "see")
             \/ Includes(lower, "observe")
      [] type = "conclusion" ->
             \/ Includes(lower, "therefore") \/ Includes2(lower, "in", "conclusion")
             \/ Includes(lower, "finally")
      [] type = "hypothesis" ->
             \/ Includes(lower, "perhaps") \/ Includes(lower, "maybe")
             \/ Includes(lower, "hypothesis")
      [] type = "verification" ->
             \/ Includes(lower, "verify") \/ Includes(lower, "test")
             \/ Includes(lower, "check")
      [] type = "insight" ->
             \/ Includes(lower, "insight") \/ Includes(lower, "realize")
             \/ Includes(lower, "aha")
      [] type = "refinement" ->
             \/ Includes(lower, "refine") \/ Includes(lower, "improve")
             \/ Includes(lower, "better")
      [] type = "reflection" ->
             Includes(lower, "reflect") \/ Includes2(lower, "thinking", "about")

\* The type of the first rule of RuleOrder that holds, analysis when none does.
FirstRuleThatHolds(lower) ==
    LET holding == {k \in 1..Len(RuleOrder) : RuleHolds(RuleOrder[k], lower)}
    IN  IF holding = {} THEN "analysis"
        ELSE RuleOrder[CHOOSE k \in holding : \A m \in holding : k <= m]

C19_ExplicitTypeWins ==
    result.op = "addThought" =>
        LET i == CHOOSE i \in 1..Len(sessions) : sessions[i].id = result.sid
            WasStored(th) == th.id = Last(appendLog[i]).id
            stored == SelectSeq(sessions[i].thoughts, WasStored)[1]
            type == IF result.input.thoughtType # None
                    THEN result.input.thoughtType[1]
                    ELSE FirstRuleThatHolds(Lower(result.input.thought))
        IN  /\ stored.thought = result.input.thought
            /\ stored.thoughtType = type
            /\ result.ret.thoughtType = type

\* C19 witness: a text that is classified as a hypothesis was stored as an
\* insight because the caller said so.
C19_Witness ==
    /\ result.op = "addThought"
    /\ result.input.thoughtType = Some("insight")
    /\ inferThoughtType(result.input.thought) = "hypothesis"
    /\ result.ret.thoughtType = "insight"
    /\ result.ret.totalSteps = 2

\* The first six words of a text, the last of them followed by '...' when
\* the text has more than six words.
FirstSixWords(text) ==
    IF Len(text) > 6
    THEN [k \in 1..6 |-> IF k = 6 THEN text[6] \o "..." ELSE text[k]]
    ELSE text

\* C20: in every reachable state, the problem of a session created by
\* addThought is the text of the thought appended first and its title is the
\* first six words of that text, followed by '...' exactly when the text has
\* more than six words; so neither changes after the first append.
C20_ProblemAndTitleFromFirstThought ==
    \A i \in 1..Len(sessions) :
        /\ appendLog[i] # <<>>
        /\ sessions[i].problem = InAppendOrder(i)[1].thought
        /\ sessions[i].title = FirstSixWords(InAppendOrder(i)[1].thought)

\* C20 witness: a session whose first thought has seven words holds a second
\* thought with another text and was completed.
C20_Witness ==
    \E i \in 1..Len(sessions) :
        /\ Len(sessions[i].thoughts) = 2
        /\ Len(sessions[i].problem) = 7
        /\ sessions[i].thoughts[2].thought # sessions[i].problem
        /\ sessions[i].status = "completed"

\* C21: in every reachable state each session holds the branch named main it
\* was created with, and no call removes or renames a branch: across every
\* step the branches length does not decrease and every branch id present
\* before is present after, under the same name.
C21_BranchesNeverRemoved ==
    [][\A i \in 1..Len(sessions) :
          LET before == sessions[i].branches
              after == sessions'[i].branches
          IN  /\ Len(sessions') >= i
              /\ sessions'[i].id = sessions[i].id
              /\ Len(after) >= Len(before)
              /\ \A j \in 1..Len(before) :
                     \E k \in 1..Len(after) :
                         /\ after[k].id = before[j].id
                         /\ after[k].name = before[j].name
              /\ \E k \in 1..Len(after) :
                     /\ after[k].name = DEFAULT_BRANCH_NAME
                     /\ after[k].description = Some("Main thinking branch")
                     /\ after[k].parentBranchId = None
      ]_vars

\* C21 witness: a session that held two branches has been switched back to
\* main and completed.
C21_Witness ==
    \E i \in 1..Len(sessions) :
        /\ Len(sessions[i].branches) = 2
        /\ sessions[i].activeBranchId = sessions[i].branches[1].id
        /\ sessions[i].status = "completed"
        /\ sessions[i].thoughts # <<>>

\* C22: listSessions returns exactly one entry per held session and no
\* other; each entry carries the session's current id, title and status, and
\* a stepCount equal to the length of its thoughts over all branches.
C22_ListSessionsEntries ==
    result.op = "listSessions" =>
        /\ Len(result.ret) = Len(sessions)
        /\ \A i \in 1..Len(sessions) :
              /\ Len(SelectSeq(result.ret, LAMBDA e : e.id = sessions[i].id)) = 1
              /\ \E k \in 1..Len(result.ret) :
                     /\ result.ret[k].id = sessions[i].id
                     /\ result.ret[k].title = sessions[i].title
                     /\ result.ret[k].status = sessions[i].status
                     /\ result.ret[k].stepCount = Len(appendLog[i])
                     /\ result.ret[k].stepCount = Len(sessions[i].thoughts)

\* C22 witness: listSessions has listed two sessions, one completed with a
\* thought and one without thoughts.
C22_Witness ==
    /\ result.op = "listSessions"
    /\ Len(result.ret) = 2
    /\ \E k \in 1..2 : result.ret[k].status = "completed" /\ result.ret[k].stepCount = 1
    /\ \E k \in 1..2 : result.ret[k].stepCount = 0

\* C23 as stated: an addThought call that gives branchId and no newBranchName
\* leaves session.activeBranchId equal to the given id, and the next
\* addThought call without branch directive stores its thought on that branch.
C23_BranchIdSwitchesActiveBranch ==
    [][/\ (/\ IsAddThoughtStep
           /\ TruthyStr(result'.input.branchId)
           /\ result'.input.newBranchName = None) =>
             SessionOf(sessions', result'.sid).activeBranchId = result'.input.branchId[1]
       /\ (/\ result.op = "addThought"
           /\ TruthyStr(result.input.branchId)
           /\ result.input.newBranchName = None
           /\ IsAddThoughtStep
           /\ result'.sid = result.sid
           /\ NoBranchDirective(result'.input)) =>
             Last(SessionOf(sessions', result.sid).thoughts).branchId
                 = result.input.branchId[1]
      ]_vars

\* C24 as stated: in every addThought result, activeBranch is the name of the
\* session's active branch after the call and equals progress.activeBranch,
\* stepNumber equals progress.currentStep, totalSteps equals
\* progress.totalSteps and the number of thoughts of all branches, and
\* branchCount equals progress.branches.
C24_ResultAgreesWithProgress ==
    result.op = "addThought" =>
        LET session == SessionOf(sessions, result.sid)
            ret == result.ret
        IN  /\ ret.activeBranch = BranchById(session, session.activeBranchId)[1].name
            /\ ret.activeBranch = ret.progress.activeBranch
            /\ ret.stepNumber = ret.progress.currentStep
            /\ ret.totalSteps = ret.progress.totalSteps
            /\ ret.totalSteps = Len(session.thoughts)
            /\ ret.branchCount = ret.progress.branches
            /\ ret.branchCount = Len(session.branches)

\* The session holds a thought of that type, on whatever branch.
HoldsType(session, type) ==
    \E k \in 1..Len(session.thoughts) : session.thoughts[k].thoughtType = type

\* C25: getProgress reports hasMoreThoughts = false exactly when the session
\* holds a thought of type conclusion (on any branch) and its status is not
\* active, and true in every other state, in particular once the status is
\* active again.
C25_HasMoreThoughts ==
    /\ \A i \in 1..Len(sessions) :
          getProgress(sessions[i]).hasMoreThoughts
              = ~(HoldsType(sessions[i], "conclusion") /\ sessions[i].status # "active")
    /\ result.op = "getProgress" =>
          result.ret.hasMoreThoughts
              = ~(/\ HoldsType(SessionOf(sessions, result.sid), "conclusion")
                  /\ SessionOf(sessions, result.sid).status # "active")

\* C25 witness: getProgress has reported hasMoreThoughts = false for a paused
\* session whose only conclusion lies on a branch that is not active.
C25_Witness ==
    /\ result.op = "getProgress"
    /\ result.ret.hasMoreThoughts = FALSE
    /\ LET session == SessionOf(sessions, result.sid)
       IN  /\ session.status = "paused"
           /\ \A k \in 1..Len(session.thoughts) :
                  session.thoughts[k].branchId # session.activeBranchId

\* The placeholder of the progress summary.
Placeholder == <<"Starting analysis...">>

\* The types the progress summary tallies, with their plurals.
TalliedTypes ==
    {<<"observation", "observations">>, <<"hypothesis", "hypotheses">>,
     <<"insight", "insights">>, <<"conclusion", "conclusions">>}

\* The summary names, for every tallied type the session holds, its count.
SummaryTallies(session, summary) ==
    \A tp \in TalliedTypes :
        LET n == TypeCount(session.thoughts, tp[1])
        IN  (n > 0) <=> (\E k \in 1..Len(summary) :
                            summary[k] = ToString(n) \o " " \o tp[2])

\* C26 as amended: the progress summary is the placeholder exactly when the
\* session holds no thought of type observation, hypothesis, insight or
\* conclusion (no thought at all in particular); otherwise it is built from
\* the tallies of those types.
C26_PlaceholderWithoutTallies ==
    \A i \in 1..Len(sessions) :
        LET summary == getProgress(sessions[i]).summary
        IN  /\ (summary = Placeholder) <=>
                   (\A tp \in TalliedTypes : ~HoldsType(sessions[i], tp[1]))
            /\ summary # Placeholder => SummaryTallies(sessions[i], summary)

\* C26 as stated: the progress summary is the placeholder exactly when the
\* session holds no thought.
C26_Original ==
    \A i \in 1..Len(sessions) :
        LET summary == getProgress(sessions[i]).summary
        IN  /\ (summary = Placeholder) <=> (sessions[i].thoughts = <<>>)
            /\ summary # Placeholder => SummaryTallies(sessions[i], summary)

\* C26 witness: getProgress has returned the tallies of a session that holds
\* an observation and a conclusion.
C26_Witness ==
    /\ result.op = "getProgress"
    /\ result.ret.totalSteps = 2
    /\ result.ret.summary = <<"1 observations", "1 conclusions">>

\* The position at which the thought id was appended to the i-th session.
AppendIndex(i, id) ==
    CHOOSE k \in 1..Len(appendLog[i]) : appendLog[i][k].id = id

\* The texts of the timeline entries of a type, in timeline order.
TimelineTexts(timeline, type) ==
    LET IsType(e) == e.type = type
        hits == SelectSeq(timeline, IsType)
    IN  [k \in 1..Len(hits) |-> hits[k].thought]

\* C27: the timeline a getSummary call returns holds every thought of the
\* session exactly once, in non-decreasing timestamp order, thoughts of equal
\* timestamp in the order they were appended, whether the call is the first
\* or a later one; keyInsights and conclusions are the texts of exactly the
\* thoughts of type insight and conclusion.
C27_TimelineStableByTimestamp ==
    (result.op = "getSummary" /\ result.ret # None) =>
        \E i \in 1..Len(sessions) :
            LET session == sessions[i]
                thoughts == session.thoughts
                summary == result.ret[1]
            IN  /\ session.id = result.sid
                /\ Len(thoughts) = Len(appendLog[i])
                /\ \A k \in 1..Len(appendLog[i]) :
                      Cardinality({l \in 1..Len(thoughts) :
                                     thoughts[l].id = appendLog[i][k].id}) = 1
                /\ Len(summary.timeline) = Len(thoughts)
                /\ \A k \in 1..Len(thoughts) :
                      summary.timeline[k] = TimelineEntry(session, thoughts[k])
                /\ \A k, l \in 1..Len(thoughts) :
                      k < l =>
                        \/ thoughts[k].timestamp < thoughts[l].timestamp
                        \/ /\ thoughts[k].timestamp = thoughts[l].timestamp
                           /\ AppendIndex(i, thoughts[k].id)
                                  < AppendIndex(i, thoughts[l].id)
                /\ summary.keyInsights = TimelineTexts(summary.timeline, "insight")
                /\ summary.conclusions = TimelineTexts(summary.timeline, "conclusion")
                /\ Len(summary.keyInsights) = TypeCount(InAppendOrder(i), "insight")
                /\ Len(summary.conclusions) = TypeCount(InAppendOrder(i), "conclusion")

\* C27 witness: getSummary has returned a timeline of three thoughts, two of
\* them of one timestamp and one moved in front of an earlier append, with an
\* insight and a conclusion among them.
C27_Witness ==
    /\ result.op = "getSummary"
    /\ result.ret # None
    /\ Len(result.ret[1].timeline) = 3
    /\ result.ret[1].keyInsights # <<>>
    /\ result.ret[1].conclusions # <<>>
    /\ \E i \in 1..Len(sessions) :
          /\ sessions[i].id = result.sid
          /\ sessions[i].thoughts # InAppendOrder(i)
          /\ \E k \in 1..2 :
                sessions[i].thoughts[k].timestamp
                    = sessions[i].thoughts[k + 1].timestamp

\* The position of the branch created last among those of that name.
LastNamed(session, branchName) ==
    CHOOSE j \in 1..Len(session.branches) :
        /\ session.branches[j].name = branchName
        /\ \A l \in (j + 1)..Len(session.branches) :
              session.branches[l].name # branchName

\* C28 as stated: a switchBranch call that finds the name activates, of the
\* branches of that name, the one created last.
C28_SwitchActivatesLastCreated ==
    [][(IsCallStep /\ result'.op = "switchBranch" /\ result'.ret = TRUE) =>
          LET after == SessionOf(sessions', result'.sid)
          IN  after.activeBranchId
                  = after.branches[LastNamed(after, result'.branchName)].id
      ]_vars

\* C29: the branch an addThought call with newBranchName creates has as
\* parentBranchId the session's activeBranchId of just before the call (the
\* main branch for a session the call itself creates); its branchFromStepId is
\* the id of a thought held on that parent branch with stepNumber equal to the
\* given branchFromStep, and is absent when branchFromStep is not given or no
\* thought on the parent branch has that step number.
C29_BranchRecordsItsOrigin ==
    [][(/\ IsCallStep
        /\ result'.op = "addThought"
        /\ TruthyStr(result'.input.newBranchName)) =>
          LET after == SessionOf(sessions', result'.sid)
              held == HeldIn(sessions, result'.sid)
              parentId == IF held THEN SessionOf(sessions, result'.sid).activeBranchId
                          ELSE after.branches[1].id
              thoughts == IF held THEN ThoughtsOf(sessions, result'.sid) ELSE <<>>
              branchFromStep == result'.input.branchFromStep
              matches == {k \in 1..Len(thoughts) :
                            /\ branchFromStep # None
                            /\ thoughts[k].branchId = parentId
                            /\ thoughts[k].stepNumber = branchFromStep[1]}
              created == Last(after.branches)
          IN  /\ Len(after.branches) = BranchCountBefore(sessions, result'.sid) + 1
              /\ created.name = result'.input.newBranchName[1]
              /\ created.parentBranchId = Some(parentId)
              /\ IF matches = {}
                 THEN created.branchFromStepId = None
                 ELSE \E k \in matches :
                         created.branchFromStepId = Some(thoughts[k].id)
      ]_vars

\* C29 witness: the latest call forked branch side from step 1 of a branch
\* other than main, and the fork point was resolved.
C29_Witness ==
    /\ result.op = "addThought"
    /\ result.input.newBranchName = Some("side")
    /\ LET session == SessionOf(sessions, result.sid)
           created == Last(session.branches)
       IN  /\ created.name = "side"
           /\ created.branchFromStepId # None
           /\ created.parentBranchId # None
           /\ created.parentBranchId # Some(session.branches[1].id)

\* C30 as stated: a stored thought carries branchFromStep only if it is
\* stepNumber 1 of a branch that the addThought call storing it created; a
\* thought appended to an existing branch never carries it.
C30_BranchFromStepOnlyOnFork ==
    \A i \in 1..Len(sessions) :
        \A k \in 1..Len(sessions[i].thoughts) :
            LET th == sessions[i].thoughts[k]
            IN  th.branchFromStep # None =>
                    /\ th.stepNumber = 1
                    /\ appendLog[i][AppendIndex(i, th.id)].newBranch

\* The call of the step in progress changed the session it addressed: an
\* append, a branch switch or a completion that succeeded.
HandlerCallSucceeded ==
    /\ IsCallStep
    /\ result'.op \in {"sequential_thinking", "switch_thinking_branch",
                       "complete_thinking_session"}
    /\ result'.op # "sequential_thinking" => "success" \in DOMAIN result'.ret

\* C31 as stated, for the tools of the Vercel handler: while the clock never
\* goes back, every call that changes a session leaves that session's
\* updatedAt at the time of the call; updatedAt never decreases and is never
\* earlier than createdAt.
C31_UpdatedAtFollowsChanges ==
    [][/\ HandlerCallSucceeded =>
              SessionOf(sessions', result'.sid).updatedAt = now
       /\ \A i \in 1..Len(sessions) :
              sessions'[i].updatedAt >= sessions[i].updatedAt
       /\ \A i \in 1..Len(sessions') :
              sessions'[i].updatedAt >= sessions'[i].createdAt
      ]_vars

\* C32: whatever the order in which the event loop handles the concurrent
\* sequential_thinking requests for one session, no two thoughts on one branch
\* have the same stepNumber and no append is lost: the session holds as many
\* thoughts as requests were handled, each request's thought exactly once.
C32_ConcurrentAppendsKept ==
    \A i \in 1..Len(sessions) :
        LET thoughts == sessions[i].thoughts
        IN  /\ Len(thoughts) = Len(appendLog[i])
            /\ \A k \in 1..Len(appendLog[i]) :
                  Cardinality({l \in 1..Len(thoughts) :
                                 thoughts[l].id = appendLog[i][k].id}) = 1
            /\ \A k, l \in 1..Len(thoughts) :
                  (k # l /\ thoughts[k].branchId = thoughts[l].branchId) =>
                      thoughts[k].stepNumber # thoughts[l].stepNumber

\* C32 witness: the requests of a and b were handled interleaved (a, b, a, b)
\* on one branch of the session.
C32_Witness ==
    \E i \in 1..Len(sessions) :
        /\ Len(sessions[i].thoughts) = 4
        /\ \A k \in 1..4 :
              /\ sessions[i].thoughts[k].branchId = sessions[i].activeBranchId
              /\ sessions[i].thoughts[k].thought[1] = (IF k % 2 = 1 THEN "a" ELSE "b")

\* The arguments fail the schema in one of the ways C33 names.
FailsValidation(arguments) ==
    \/ arguments.thought = None
    \/ arguments.thought[1].type # "string"
    \/ arguments.nextThoughtNeeded = None
    \/ arguments.nextThoughtNeeded[1].type # "boolean"
    \/ /\ arguments.confidence # None
       /\ arguments.confidence[1].type = "number"
       /\ \/ arguments.confidence[1].number < 0
          \/ arguments.confidence[1].number > ConfidenceMax

\* C33: in the stdio server a sequential_thinking call whose arguments fail
\* the schema (thought or nextThoughtNeeded missing or of the wrong type,
\* confidence outside [0, 1]) and a call of an unknown tool name are answered
\* with isError true, change no held session and create no session.
C33_RejectedCallsChangeNothing ==
    [][(/\ result'.op = "CallTool"
        /\ \/ result'.request.name \notin ToolNames
           \/ /\ result'.request.name = "sequential_thinking"
              /\ FailsValidation(result'.request.arguments)) =>
          /\ result'.isError
          /\ sessions' = sessions
          /\ uuidCount' = uuidCount
      ]_vars

\* C33 witness: a call with a confidence of 1.1 for a session id that is not
\* held was answered with isError while another session holds a thought.
C33_Witness ==
    /\ result.op = "CallTool"
    /\ result.isError
    /\ result.request.name = "sequential_thinking"
    /\ result.request.arguments.confidence = Some(JNumber(ConfidenceMax + 1))
    /\ result.request.arguments.sessionId = Some(JString(<<"s2">>))
    /\ Len(sessions) = 1
    /\ sessions[1].thoughts # <<>>

\* C34: a call addressed to one session id (addThought, switchBranch,
\* updateSessionStatus, getSummary) leaves every other held session as it
\* was: its thoughts, branches, activeBranchId, status, title, problem and
\* updatedAt are the same before and after, and it keeps its place in the map.
C34_OtherSessionsUntouched ==
    [][(/\ IsCallStep
        /\ result'.op \in {"addThought", "switchBranch", "updateSessionStatus",
                           "getSummary"}) =>
          \A i \in 1..Len(sessions) :
              sessions[i].id # result'.sid =>
                  /\ i <= Len(sessions')
                  /\ sessions'[i] = sessions[i]
      ]_vars

\* C34 witness: the session created first holds a thought and was completed
\* at time 0; the latest call appended to the other session at time 1.
C34_Witness ==
    /\ Len(sessions) = 2
    /\ result.op = "addThought"
    /\ result.sid = sessions[2].id
    /\ now = 1
    /\ sessions[2].updatedAt = 1
    /\ sessions[1].status = "completed"
    /\ sessions[1].updatedAt = 0
    /\ sessions[1].thoughts # <<>>

\* C35: addThought is accepted whatever the status of the session and leaves
\* the status as it was; the status of a session changes only in an
\* updateSessionStatus call for that session, and such a call on a held
\* session succeeds and sets the status given, whatever the status before
\* (completed back to active included).
C35_StatusOnlyByUpdate ==
    [][/\ (IsCallStep /\ result'.op = "addThought" /\ HeldIn(sessions, result'.sid)) =>
              LET before == SessionOf(sessions, result'.sid)
                  after == SessionOf(sessions', result'.sid)
              IN  /\ after.status = before.status
                  /\ Len(after.thoughts) = Len(before.thoughts) + 1
                  /\ Last(after.thoughts).thought = result'.input.thought
       /\ \A i \in 1..Len(sessions) :
              sessions'[i].status # sessions[i].status =>
                  /\ result'.op = "updateSessionStatus"
                  /\ result'.sid = sessions[i].id
       /\ (/\ IsCallStep
           /\ result'.op = "updateSessionStatus"
           /\ HeldIn(sessions, result'.sid)) =>
              /\ result'.ret = TRUE
              /\ SessionOf(sessions', result'.sid).status = result'.status
      ]_vars

\* C35 witness: the latest call appended a second thought to a session whose
\* status is abandoned.
C35_Witness ==
    /\ result.op = "addThought"
    /\ LET session == SessionOf(sessions, result.sid)
       IN  /\ session.status = "abandoned"
           /\ Len(session.thoughts) = 2
           /\ result.ret.totalSteps = 2

\* C36 as stated: the three copies of inferThoughtType return the same type
\* for every text.
C36_CopiesAgree ==
    result.op = "inferThoughtTypeCopies" =>
        /\ result.route = result.manager
        /\ result.handler = result.manager

\* C37: in the Vercel handler the thought complete_thinking_session appends
\* for a final conclusion lies on the active branch and has as stepNumber the
\* number of thoughts already on that branch plus one, whatever
\* sequential_thinking and switch_thinking_branch calls came before.
C37_ConclusionStepNumber ==
    [][(/\ IsCallStep
        /\ result'.op = "complete_thinking_session"
        /\ HeldIn(sessions, result'.sid)
        /\ result'.finalConclusion # None
        /\ TruthyText(result'.finalConclusion[1])) =>
          LET before == SessionOf(sessions, result'.sid)
              after == SessionOf(sessions', result'.sid)
              stored == Last(after.thoughts)
          IN  /\ Len(after.thoughts) = Len(before.thoughts) + 1
              /\ stored.thoughtType = "conclusion"
              /\ stored.branchId = before.activeBranchId
              /\ stored.stepNumber =
                     Len(BranchThoughts(before, before.activeBranchId)) + 1
      ]_vars

\* C37 witness: after a sequential_thinking call that stored the caller's
\* thoughtNumber 2 on the first thought, the completion has appended the
\* conclusion as the second thought of the active branch, with stepNumber 2.
C37_Witness ==
    /\ result.op = "complete_thinking_session"
    /\ "success" \in DOMAIN result.ret
    /\ LET session == SessionOf(sessions, result.sid)
       IN  /\ Len(session.thoughts) = 2
           /\ session.thoughts[1].stepNumber = 2
           /\ session.thoughts[2].thoughtType = "conclusion"
           /\ session.thoughts[2].stepNumber = 2
           /\ session.thoughts[2].branchId = session.activeBranchId

====
